---- MODULE Spec2Model ----
(***************************************************************************)
(* A model of open-meteo-analyzer: the date normaliser and the fetch       *)
(* pipeline of fetcher.py, and the filter/aggregate engine and command     *)
(* line of visualizer.py and visualization_openmeteo.py.                   *)
(*                                                                         *)
(* Text is a sequence of one-character strings, so that formatting and     *)
(* parsing are computed and not assumed: f"{year}" does not pad, strptime  *)
(* wants four year digits.  A calendar date is <<year, month, day>>, a     *)
(* datetime is <<year, month, day, time of day>>.  A mean is the exact     *)
(* fraction <<sum, count>>.                                                *)
(***************************************************************************)
EXTENDS Integers, Sequences, FiniteSets, TLC

VARIABLES
    now,         \* datetime.now(): <<year, month, day, time of day>>
    pc,          \* position of the running command
    date_str,    \* parse_date_input: the argument date_str
    is_start,    \* parse_date_input: the argument is_start
    result,      \* parse_date_input: what the call returned or raised
    run,         \* fetcher.main: the state of one run of the fetcher
    args,        \* the visualization command: the parsed command line
    viz,         \* the visualization command: the state of one run
    gui          \* the desktop form: its fields, buttons and workers

vars == <<now, pc, date_str, is_start, result, run, args, viz, gui>>

None == "None"

(***************************************************************************)
(* Bounds of the model.                                                    *)
(***************************************************************************)
\* Years tried as input lie within YearSpan of the current year (besides
\* the fixed extreme years).
YearSpan == 1
\* The input file of the visualization command holds at most MaxRows days.
MaxRows == 2
\* In interactive mode the fetcher asks for a location at most MaxAsks times.
MaxAsks == 3
\* The buttons of the desktop form start at most MaxWorkers workers.
MaxWorkers == 3
\* ... and at most MaxLiveWorkers where it is checked that workers end.
MaxLiveWorkers == 2

(***************************************************************************)
(* Text.                                                                    *)
(***************************************************************************)
DigitChar == <<"0", "1", "2", "3", "4", "5", "6", "7", "8", "9">>

IsDigit(c) == \E i \in 1..10 : DigitChar[i] = c

DigitVal(c) == (CHOOSE i \in 1..10 : DigitChar[i] = c) - 1

AllDigits(s) == \A i \in 1..Len(s) : IsDigit(s[i])

RECURSIVE DigitsVal(_)
DigitsVal(s) ==
    IF s = <<>> THEN 0
    ELSE 10 * DigitsVal(SubSeq(s, 1, Len(s) - 1)) + DigitVal(s[Len(s)])

\* str.strip(): leading and trailing blanks removed.
RECURSIVE Strip(_)
Strip(s) ==
    IF s = <<>> THEN s
    ELSE IF Head(s) = " " THEN Strip(Tail(s))
    ELSE IF s[Len(s)] = " " THEN Strip(SubSeq(s, 1, Len(s) - 1))
    ELSE s

\* The digits of an int literal: '_' is allowed between two digits.
Underscored(s) ==
    /\ s # <<>>
    /\ \A i \in 1..Len(s) : IsDigit(s[i]) \/ s[i] = "_"
    /\ s[1] # "_" /\ s[Len(s)] # "_"
    /\ \A i \in 1..(Len(s) - 1) : ~(s[i] = "_" /\ s[i + 1] = "_")

\* int(str): blanks around it are ignored, one sign is allowed, then digits.
IntParse(s0) ==
    LET s == Strip(s0)
        signed == s # <<>> /\ Head(s) \in {"-", "+"}
        neg == s # <<>> /\ Head(s) = "-"
        body == IF signed THEN Tail(s) ELSE s
        digits == SelectSeq(body, IsDigit)
    IN  IF Underscored(body)
        THEN [ok |-> TRUE, val |-> IF neg THEN 0 - DigitsVal(digits) ELSE DigitsVal(digits)]
        ELSE [ok |-> FALSE, val |-> 0]

\* f"{n}": decimal digits, no padding.
RECURSIVE FmtNat(_)
FmtNat(n) ==
    IF n < 10 THEN <<DigitChar[n + 1]>>
    ELSE FmtNat(n \div 10) \o <<DigitChar[(n % 10) + 1]>>

FmtInt(n) == IF n < 0 THEN <<"-">> \o FmtNat(0 - n) ELSE FmtNat(n)

\* f"{n:0wd}" for n >= 0: zero-padded to at least w characters.
RECURSIVE FmtPad(_, _)
FmtPad(n, w) ==
    LET t == FmtNat(n)
    IN  IF Len(t) >= w THEN t ELSE <<"0">> \o FmtPad(n, w - 1)

\* str.split("-"): the number of fields is one more than the number of '-'.
SplitCount(s) == 1 + Cardinality({i \in 1..Len(s) : s[i] = "-"})

(***************************************************************************)
(* The calendar of datetime.                                               *)
(***************************************************************************)
IsLeap(y) == (y % 4 = 0) /\ ((y % 100 # 0) \/ (y % 400 = 0))

DaysInMonth(y, m) ==
    IF m = 2 THEN (IF IsLeap(y) THEN 29 ELSE 28)
    ELSE IF m \in {4, 6, 9, 11} THEN 30 ELSE 31

\* datetime(y, m, d): raises ValueError outside the calendar (years 1..9999).
DatetimeOk(y, m, d) ==
    /\ y >= 1 /\ y <= 9999
    /\ m >= 1 /\ m <= 12
    /\ d >= 1 /\ d <= DaysInMonth(y, m)

\* dt - relativedelta(days=1), on the date part.
PrevDay(dt) ==
    LET y == dt[1]
        m == dt[2]
        d == dt[3]
    IN  IF d > 1 THEN <<y, m, d - 1>>
        ELSE IF m > 1 THEN <<y, m - 1, DaysInMonth(y, m - 1)>>
        ELSE <<y - 1, 12, 31>>

\* a > b on datetimes <<y, m, d, t>>.
DtGreater(a, b) ==
    \/ a[1] > b[1]
    \/ a[1] = b[1] /\ a[2] > b[2]
    \/ a[1] = b[1] /\ a[2] = b[2] /\ a[3] > b[3]
    \/ a[1] = b[1] /\ a[2] = b[2] /\ a[3] = b[3] /\ a[4] > b[4]

\* datetime.now() - relativedelta(days=1): the time of day is kept.
Yesterday(n) == PrevDay(n) \o <<n[4]>>

\* dt.strftime("%Y-%m-%d").
Strftime(dt) ==
    FmtPad(dt[1], 4) \o <<"-">> \o FmtPad(dt[2], 2) \o <<"-">> \o FmtPad(dt[3], 2)

\* The month field of strptime's %m: 1[0-2] | 0[1-9] | [1-9].
MonthField(t) ==
    \/ Len(t) = 2 /\ t[1] = "1" /\ t[2] \in {"0", "1", "2"}
    \/ Len(t) = 2 /\ t[1] = "0" /\ IsDigit(t[2]) /\ t[2] # "0"
    \/ Len(t) = 1 /\ IsDigit(t[1]) /\ t[1] # "0"

\* The day field of strptime's %d: 3[0-1] | [1-2]\d | 0[1-9] | [1-9] | " "[1-9].
DayField(t) ==
    \/ Len(t) = 2 /\ t[1] = "3" /\ t[2] \in {"0", "1"}
    \/ Len(t) = 2 /\ t[1] \in {"1", "2"} /\ IsDigit(t[2])
    \/ Len(t) = 2 /\ t[1] \in {"0", " "} /\ IsDigit(t[2]) /\ t[2] # "0"
    \/ Len(t) = 1 /\ IsDigit(t[1]) /\ t[1] # "0"

\* datetime.strptime(s, "%Y-%m-%d"): four year digits, '-', month, '-', day,
\* nothing left over, and a date of the calendar; the result is at midnight.
Strptime(s) ==
    LET shapes == {p \in {1, 2} \X {1, 2} :
                     /\ Len(s) = 6 + p[1] + p[2]
                     /\ AllDigits(SubSeq(s, 1, 4))
                     /\ s[5] = "-"
                     /\ MonthField(SubSeq(s, 6, 5 + p[1]))
                     /\ s[6 + p[1]] = "-"
                     /\ DayField(SubSeq(s, 7 + p[1], Len(s)))}
    IN  IF shapes = {} THEN [ok |-> FALSE, dt |-> <<0, 0, 0, 0>>]
        ELSE LET p == CHOOSE q \in shapes : TRUE
                 y == DigitsVal(SubSeq(s, 1, 4))
                 m == DigitsVal(SubSeq(s, 6, 5 + p[1]))
                 d == IntParse(SubSeq(s, 7 + p[1], Len(s))).val
             IN  IF DatetimeOk(y, m, d)
                 THEN [ok |-> TRUE, dt |-> <<y, m, d, 0>>]
                 ELSE [ok |-> FALSE, dt |-> <<0, 0, 0, 0>>]

(***************************************************************************)
(* fetcher.parse_date_input.                                               *)
(***************************************************************************)
Returned(s) == [ok |-> TRUE, val |-> s]
Raised(msg) == [ok |-> FALSE, val |-> msg]

\* "Clamp end date to yesterday if it's in the future".
ClampGt(parsed, yesterday) == DtGreater(parsed, yesterday)
ClampToYesterday(text, parsed, n) ==
    IF ClampGt(parsed, Yesterday(n)) THEN Strftime(Yesterday(n)) ELSE text

\* The YYYY branch.
YearText(year) == FmtInt(year)
ParseYear(s, start, n) ==
    LET yr == IntParse(s)
    IN  IF ~yr.ok THEN Raised("Invalid year format. Please use YYYY.")
        ELSE IF start
        THEN Returned(YearText(yr.val) \o <<"-", "0", "1", "-", "0", "1">>)
        ELSE LET text == YearText(yr.val) \o <<"-", "1", "2", "-", "3", "1">>
                 parsed == Strptime(text)
             IN  IF ~parsed.ok THEN Raised("Invalid year format. Please use YYYY.")
                 ELSE Returned(ClampToYesterday(text, parsed.dt, n))

\* "Get last day of the month": first day of the next month, minus one day.
NextMonthDate(year, month) ==
    IF month = 12 THEN <<year + 1, 1, 1>> ELSE <<year, month + 1, 1>>

\* The YYYY-MM branch.
ParseYearMonth(s, start, n) ==
    LET bad == Raised("Invalid year-month format. Please use YYYY-MM.")
        yr == IntParse(SubSeq(s, 1, 4))
        mo == IntParse(SubSeq(s, 6, 7))
    IN  IF SplitCount(s) # 2 \/ ~yr.ok \/ ~mo.ok THEN bad
        ELSE IF mo.val < 1 \/ mo.val > 12 THEN bad
        ELSE IF start
        THEN Returned(YearText(yr.val) \o <<"-">> \o FmtPad(mo.val, 2) \o <<"-", "0", "1">>)
        ELSE LET nxt == NextMonthDate(yr.val, mo.val)
             IN  IF ~DatetimeOk(nxt[1], nxt[2], nxt[3]) THEN bad
                 \* the day before 0001-01-01 does not exist; the subtraction
                 \* raises OverflowError, which "except ValueError" lets through
                 ELSE IF ~DatetimeOk(PrevDay(nxt)[1], PrevDay(nxt)[2], PrevDay(nxt)[3])
                 THEN Raised("OverflowError: date value out of range")
                 ELSE LET last_day == PrevDay(nxt)[3]
                          text == YearText(yr.val) \o <<"-">> \o FmtPad(mo.val, 2)
                                    \o <<"-">> \o FmtPad(last_day, 2)
                          parsed == Strptime(text)
                      IN  IF ~parsed.ok THEN bad
                          ELSE Returned(ClampToYesterday(text, parsed.dt, n))

\* The YYYY-MM-DD branch with the clamp forgotten.
ParseFullDateNoClamp(s, start, n) ==
    LET parsed == Strptime(s)
    IN  IF ~parsed.ok THEN Raised("Invalid date format. Please use YYYY-MM-DD.")
        ELSE Returned(s)

\* The YYYY-MM-DD branch.
ParseFullDate(s, start, n) ==
    LET parsed == Strptime(s)
    IN  IF ~parsed.ok THEN Raised("Invalid date format. Please use YYYY-MM-DD.")
        ELSE IF ~start THEN Returned(ClampToYesterday(s, parsed.dt, n))
        ELSE Returned(s)

\* parse_date_input with the test of the '-' at index 4 forgotten in the
\* YYYY-MM branch.
parse_date_inputNoDashTest(raw, start, n) ==
    LET s == Strip(raw)
    IN  IF Len(s) = 4 THEN ParseYear(s, start, n)
        ELSE IF Len(s) = 7 THEN ParseYearMonth(s, start, n)
        ELSE IF Len(s) = 10 /\ s[5] = "-" /\ s[8] = "-" THEN ParseFullDate(s, start, n)
        ELSE Raised("Invalid date format. Please use YYYY, YYYY-MM, or YYYY-MM-DD.")

parse_date_input(raw, start, n) ==
    LET s == Strip(raw)
    IN  IF Len(s) = 4 THEN ParseYear(s, start, n)
        ELSE IF Len(s) = 7 /\ s[5] = "-" THEN ParseYearMonth(s, start, n)
        ELSE IF Len(s) = 10 /\ s[5] = "-" /\ s[8] = "-" THEN ParseFullDate(s, start, n)
        ELSE Raised("Invalid date format. Please use YYYY, YYYY-MM, or YYYY-MM-DD.")

(***************************************************************************)
(* parse_date_input of the duplicate fetcher (open_meteo_fetcher.py, lines *)
(* 36-106), translated from its own text.                                  *)
(***************************************************************************)
\* len(date_str) == 4 (lines 49-62).
OpenMeteoFetcherYear(s, start, n) ==
    LET year == IntParse(s)
        invalid == Raised("Invalid year format. Please use YYYY.")
    IN  IF ~year.ok THEN invalid
        ELSE IF start THEN Returned(FmtInt(year.val) \o <<"-", "0", "1", "-", "0", "1">>)
        ELSE LET result_date == FmtInt(year.val) \o <<"-", "1", "2", "-", "3", "1">>
                 parsed_date == Strptime(result_date)
             IN  IF ~parsed_date.ok THEN invalid
                 ELSE IF DtGreater(parsed_date.dt, Yesterday(n))
                 THEN Returned(Strftime(Yesterday(n)))
                 ELSE Returned(result_date)

\* len(date_str) == 7 and date_str[4] == "-" (lines 64-89).
OpenMeteoFetcherYearMonth(s, start, n) ==
    LET year == IntParse(SubSeq(s, 1, 4))
        month == IntParse(SubSeq(s, 6, 7))
        invalid == Raised("Invalid year-month format. Please use YYYY-MM.")
    IN  IF SplitCount(s) # 2 THEN invalid
        ELSE IF ~year.ok \/ ~month.ok THEN invalid
        ELSE IF month.val < 1 \/ month.val > 12 THEN invalid
        ELSE IF start
        THEN Returned(FmtInt(year.val) \o <<"-">> \o FmtPad(month.val, 2) \o <<"-", "0", "1">>)
        ELSE LET next_month_date == IF month.val = 12 THEN <<year.val + 1, 1, 1>>
                                    ELSE <<year.val, month.val + 1, 1>>
                 before == PrevDay(next_month_date)
             IN  IF ~DatetimeOk(next_month_date[1], next_month_date[2], next_month_date[3])
                 THEN invalid
                 ELSE IF ~DatetimeOk(before[1], before[2], before[3])
                 THEN Raised("OverflowError: date value out of range")
                 ELSE LET result_date == FmtInt(year.val) \o <<"-">> \o FmtPad(month.val, 2)
                                           \o <<"-">> \o FmtPad(before[3], 2)
                          parsed_date == Strptime(result_date)
                      IN  IF ~parsed_date.ok THEN invalid
                          ELSE IF DtGreater(parsed_date.dt, Yesterday(n))
                          THEN Returned(Strftime(Yesterday(n)))
                          ELSE Returned(result_date)

\* The YYYY-MM-DD branch of the duplicate with the clamp forgotten.
OpenMeteoFetcherFullDateNoClamp(s, start, n) ==
    IF ~Strptime(s).ok THEN Raised("Invalid date format. Please use YYYY-MM-DD.")
    ELSE Returned(s)

\* len(date_str) == 10 and date_str[4] == "-" and date_str[7] == "-" (lines
\* 91-101).
OpenMeteoFetcherFullDate(s, start, n) ==
    LET parsed_date == Strptime(s)
    IN  IF ~parsed_date.ok THEN Raised("Invalid date format. Please use YYYY-MM-DD.")
        ELSE IF ~start /\ DtGreater(parsed_date.dt, Yesterday(n))
        THEN Returned(Strftime(Yesterday(n)))
        ELSE Returned(s)

open_meteo_fetcher_parse_date_input(raw, start, n) ==
    LET stripped == Strip(raw)
    IN  IF Len(stripped) = 4 THEN OpenMeteoFetcherYear(stripped, start, n)
        ELSE IF Len(stripped) = 7 /\ stripped[5] = "-"
        THEN OpenMeteoFetcherYearMonth(stripped, start, n)
        ELSE IF Len(stripped) = 10 /\ stripped[5] = "-" /\ stripped[8] = "-"
        THEN OpenMeteoFetcherFullDate(stripped, start, n)
        ELSE Raised("Invalid date format. Please use YYYY, YYYY-MM, or YYYY-MM-DD.")

(***************************************************************************)
(* The data frame of the visualizers.  An optional value (None, NaN) is    *)
(* <<>>, a present one is <<v>>; a year_range or month_range is <<>> or    *)
(* <<start, end>>.  A row is one day: its year and month (lines 70-72) and *)
(* its three temperatures.                                                 *)
(***************************************************************************)
Row(y, m, tmin, tmax, tmean) ==
    [year |-> y, month |-> m, temp_min |-> tmin, temp_max |-> tmax, temp_mean |-> tmean]

RECURSIVE SumSeq(_)
SumSeq(s) == IF s = <<>> THEN 0 ELSE Head(s)[1] + SumSeq(Tail(s))

\* Series.mean(): NaN is skipped; the mean is sum / count, and NaN when
\* nothing is left (count 0).
Mean(values) ==
    LET Present(v) == v # <<>>
        kept == SelectSeq(values, Present)
    IN  <<SumSeq(kept), Len(kept)>>

RECURSIVE SortedSeq(_)
SortedSeq(S) ==
    IF S = {} THEN <<>>
    ELSE LET lo == CHOOSE x \in S : \A y \in S : x <= y
         IN  <<lo>> \o SortedSeq(S \ {lo})

\* dropna on the wrong column: subset=["temp_min"].
DropNAOnMin(df) ==
    LET HasMin(r) == r.temp_min # <<>>
    IN  SelectSeq(df, HasMin)

\* df.dropna(subset=["temp_mean"]).
DropNA(df) ==
    LET HasMean(r) == r.temp_mean # <<>>
    IN  SelectSeq(df, HasMean)

\* df.groupby("year").agg(mean of each column).reset_index(): one entry per
\* year present, in increasing order of year.
GroupByYear(df) ==
    LET years == SortedSeq({df[i].year : i \in 1..Len(df)})
        Stat(y) ==
            LET InYear(r) == r.year = y
                g == SelectSeq(df, InYear)
            IN  [year |-> y,
                 temp_mean |-> Mean([i \in 1..Len(g) |-> g[i].temp_mean]),
                 temp_min |-> Mean([i \in 1..Len(g) |-> g[i].temp_min]),
                 temp_max |-> Mean([i \in 1..Len(g) |-> g[i].temp_max])]
    IN  [k \in 1..Len(years) |-> Stat(years[k])]

\* min(a, b) taken for its first argument.
MinFirst(a, b) == a

Min(a, b) == IF a <= b THEN a ELSE b

\* Not (year == current_year and month >= current_month).
BeforeCurrentMonth(r, n) == ~(r.year = n[1] /\ r.month >= n[2])

(***************************************************************************)
(* visualizer.py: visualize_weather_data, lines 74-157.                    *)
(***************************************************************************)
\* The year_range selection with both ends left out.
InYearRangeExclusive(y, s, e) == y > s /\ y < e

\* The year_range selection: start_year <= year <= end_year.
InYearRange(y, s, e) == y >= s /\ y <= e

\* The rows kept when no year filter is given, with the test forgotten.
BeforeCurrentYearForgotten(r, n) == TRUE

\* "If no year filter specified, exclude current year".
BeforeCurrentYear(r, n) == r.year < n[1]

\* "Filter by year".  ret: the function returned ("No data available");
\* year: the year argument, lowered to current_year - 1 when it was not before.
YearFilter(df, year, year_range, n) ==
    LET cy == n[1]
    IN  IF year # <<>>
        THEN LET y == IF year[1] >= cy THEN Min(year[1], cy - 1) ELSE year[1]
                 Keep(r) == r.year = y
             IN  [ret |-> FALSE, df |-> SelectSeq(df, Keep), year |-> <<y>>]
        ELSE IF year_range # <<>>
        THEN LET s == year_range[1]
                 e == IF year_range[2] >= cy THEN Min(year_range[2], cy - 1)
                      ELSE year_range[2]
                 Keep(r) == InYearRange(r.year, s, e)
             IN  IF s >= cy THEN [ret |-> TRUE, df |-> df, year |-> year]
                 ELSE [ret |-> FALSE, df |-> SelectSeq(df, Keep), year |-> year]
        ELSE LET Keep(r) == BeforeCurrentYear(r, n)
             IN  [ret |-> FALSE, df |-> SelectSeq(df, Keep), year |-> year]

\* df["date"].dt.strftime("%B").iloc[0]: IndexError on an empty frame.
IlocFirst(df) ==
    IF df = <<>> THEN Raised("IndexError") ELSE Returned(<<df[1].month>>)

\* month_name without the test for an empty frame.
MonthNameUnguarded(df, month) == IlocFirst(df)

\* month_name = ....iloc[0] if not df_filtered.empty else f"Month {month}".
MonthName(df, month) ==
    IF df # <<>> THEN IlocFirst(df) ELSE Returned(<<month>>)

\* The month_range selection with the wrap-around test inverted.
InMonthRangeSwapped(m, s, e) ==
    IF s <= e THEN m >= s \/ m <= e ELSE m >= s /\ m <= e

\* The month_range selection: same-year range, or cross-year range.
InMonthRange(m, s, e) ==
    IF s <= e THEN m >= s /\ m <= e ELSE m >= s \/ m <= e

\* "Filter by month".  exc: the exception that escapes, if any.
MonthFilter(df, month, month_range, n) ==
    LET NotCurrent(r) == BeforeCurrentMonth(r, n)
        past == SelectSeq(df, NotCurrent)
    IN  IF month # <<>>
        THEN LET Keep(r) == r.month = month[1]
                 kept == SelectSeq(past, Keep)
                 name == MonthName(kept, month[1])
             IN  [exc |-> IF name.ok THEN "" ELSE name.val, df |-> kept]
        ELSE IF month_range # <<>>
        THEN LET Keep(r) == InMonthRange(r.month, month_range[1], month_range[2])
             IN  [exc |-> "", df |-> SelectSeq(past, Keep)]
        ELSE [exc |-> "", df |-> past]

(***************************************************************************)
(* visualization_openmeteo.py: visualize_weather_data, lines 64-108.       *)
(***************************************************************************)
YearFilterOpenMeteo(df, year, year_range) ==
    IF year # <<>>
    THEN LET Keep(r) == r.year = year[1]
         IN  [ret |-> FALSE, df |-> SelectSeq(df, Keep), year |-> year]
    ELSE IF year_range # <<>>
    THEN LET Keep(r) == r.year >= year_range[1] /\ r.year <= year_range[2]
         IN  [ret |-> FALSE, df |-> SelectSeq(df, Keep), year |-> year]
    ELSE [ret |-> FALSE, df |-> df, year |-> year]

\* The month_range selection without the cross-year range.
InMonthRangeOpenMeteoSameYear(m, s, e) == m >= s /\ m <= e

InMonthRangeOpenMeteo(m, s, e) ==
    IF s <= e THEN m >= s /\ m <= e ELSE m >= s \/ m <= e

MonthFilterOpenMeteo(df, month, month_range) ==
    IF month # <<>>
    THEN LET Keep(r) == r.month = month[1]
             kept == SelectSeq(df, Keep)
             name == MonthName(kept, month[1])
         IN  [exc |-> IF name.ok THEN "" ELSE name.val, df |-> kept]
    ELSE IF month_range # <<>>
    THEN LET Keep(r) == InMonthRangeOpenMeteo(r.month, month_range[1], month_range[2])
         IN  [exc |-> "", df |-> SelectSeq(df, Keep)]
    ELSE [exc |-> "", df |-> df]

(***************************************************************************)
(* visualizer.py, "Add trend line if requested" (lines 207-270).  A number *)
(* is an exact fraction <<numerator, denominator>>, denominator > 0.  A    *)
(* line (np.poly1d of the two coefficients) is held as its slope and its   *)
(* value y0 at the year x0, both over the same denominator.                *)
(***************************************************************************)
RECURSIVE Product(_)
Product(s) == IF s = <<>> THEN 1 ELSE Head(s) * Product(Tail(s))

RECURSIVE Total(_)
Total(s) == IF s = <<>> THEN 0 ELSE Head(s) + Total(Tail(s))

\* np.polyfit(years, temps, 1): the least-squares solution of
\* temps ~ slope * years + intercept.  With one point the system has rank 1
\* and lstsq gives the solution of least norm in the columns scaled to unit
\* length, slope = temp / (2 * year) and intercept = temp / 2 (and polyfit
\* warns "Polyfit may be poorly conditioned").
Polyfit(years, temps) ==
    LET n == Len(years)
        x0 == years[1]
        D == Product([i \in 1..n |-> temps[i][2]])
        Y == [i \in 1..n |-> temps[i][1] * (D \div temps[i][2])]
        u == [i \in 1..n |-> years[i] - x0]
        Su == Total(u)
        Suu == Total([i \in 1..n |-> u[i] * u[i]])
        SY == Total(Y)
        SuY == Total([i \in 1..n |-> u[i] * Y[i]])
        Q == n * Suu - Su * Su
    IN  IF n = 1
        THEN [slope |-> <<temps[1][1], 2 * x0 * temps[1][2]>>,
              x0 |-> x0,
              y0 |-> <<2 * x0 * temps[1][1], 2 * x0 * temps[1][2]>>]
        ELSE [slope |-> <<n * SuY - Su * SY, D * Q>>,
              x0 |-> x0,
              y0 |-> <<SY * Suu - Su * SuY, D * Q>>]

\* trend_line(x), for trend_line = np.poly1d(coeffs).
Polyval(line, x) == <<line.y0[1] + line.slope[1] * (x - line.x0), line.y0[2]>>

\* end_year = years[-1], taken as years[0].
EndYearAsFirst(years) == years[1]

\* start_year = years[0] and end_year = years[-1].
StartYear(years) == years[1]
EndYear(years) == years[Len(years)]

\* The trend printed and annotated: the slope, and the line at the two ends.
Trend(yearly_stats) ==
    LET years == [k \in 1..Len(yearly_stats) |-> yearly_stats[k].year]
        temps == [k \in 1..Len(yearly_stats) |-> yearly_stats[k].temp_mean]
        trend_line == Polyfit(years, temps)
    IN  [line |-> trend_line,
         start_year |-> StartYear(years),
         end_year |-> EndYear(years),
         start_temp |-> Polyval(trend_line, StartYear(years)),
         end_temp |-> Polyval(trend_line, EndYear(years))]

(***************************************************************************)
(* The command line of the two visualizers ("Validate arguments").         *)
(***************************************************************************)
\* Python truth of an optional int: None and 0 are false.
TruthyInt(opt) == opt # <<>> /\ opt[1] # 0

\* Python truth of an optional list of two ints: only None is false.
TruthyList(opt) == opt # <<>>

\* The month_range test with "or" for "and".
MonthRangeOkEither(mr) ==
    (1 <= mr[1] /\ mr[1] <= 12) \/ (1 <= mr[2] /\ mr[2] <= 12)

\* 1 <= start_month <= 12 and 1 <= end_month <= 12.
MonthRangeOk(mr) == 1 <= mr[1] /\ mr[1] <= 12 /\ 1 <= mr[2] /\ mr[2] <= 12

\* visualizer.py, lines 430-449: the message of the exit(1), or "" to go on.
ValidateArgs(a) ==
    IF TruthyInt(a.year) /\ TruthyList(a.year_range)
    THEN "Cannot specify both --year and --year-range"
    ELSE IF TruthyInt(a.month) /\ TruthyList(a.month_range)
    THEN "Cannot specify both --month and --month-range"
    ELSE IF TruthyList(a.month_range) /\ ~MonthRangeOk(a.month_range)
    THEN "Month range values must be between 1 and 12"
    ELSE IF TruthyList(a.year_range) /\ a.year_range[1] > a.year_range[2]
    THEN "Start year must be less than or equal to end year"
    ELSE ""

\* visualization_openmeteo.py, lines 241-260.
ValidateArgsOpenMeteo(a) ==
    IF TruthyInt(a.year) /\ TruthyList(a.year_range)
    THEN "Cannot specify both --year and --year-range"
    ELSE IF TruthyInt(a.month) /\ TruthyList(a.month_range)
    THEN "Cannot specify both --month and --month-range"
    ELSE IF TruthyList(a.month_range) /\ ~MonthRangeOk(a.month_range)
    THEN "Month range values must be between 1 and 12"
    ELSE IF TruthyList(a.year_range) /\ a.year_range[1] > a.year_range[2]
    THEN "Start year must be less than or equal to end year"
    ELSE ""

(***************************************************************************)
(* "Save to file": the name of the chart.                                  *)
(***************************************************************************)
ImgDir == <<"i", "m", "g", "/">>
PngExt == <<".", "p", "n", "g">>
WeatherTrend == <<"w", "e", "a", "t", "h", "e", "r", "_", "t", "r", "e", "n", "d", "_">>

\* s.endswith(suffix), and c in s.
EndsWith(s, suffix) ==
    Len(s) >= Len(suffix) /\ SubSeq(s, Len(s) - Len(suffix) + 1, Len(s)) = suffix

Contains(s, c) == \E i \in 1..Len(s) : s[i] = c

\* "Use custom filename" with the extension left as it was given.
CustomOutputFileAsGiven(output_filename) ==
    IF ~Contains(output_filename, "/") THEN ImgDir \o output_filename
    ELSE output_filename

\* "Use custom filename": .png is added when the name does not end with it,
\* img/ is put in front when the name has no '/'.
CustomOutputFile(output_filename) ==
    LET output_file == IF ~EndsWith(output_filename, PngExt)
                       THEN output_filename \o PngExt
                       ELSE output_filename
    IN  IF ~Contains(output_file, "/") THEN ImgDir \o output_file
        ELSE output_file

\* filename_suffix of the default name; year is the year argument as the year
\* filter left it.
FilenameSuffix(year, year_range, month, month_range) ==
    (IF year # <<>> THEN <<"_", "y", "e", "a", "r">> \o FmtInt(year[1])
     ELSE IF year_range # <<>>
     THEN <<"_", "y", "e", "a", "r", "s">> \o FmtInt(year_range[1])
            \o <<"-">> \o FmtInt(year_range[2])
     ELSE <<>>)
    \o
    (IF month # <<>> THEN <<"_", "m", "o", "n", "t", "h">> \o FmtPad(month[1], 2)
     ELSE IF month_range # <<>>
     THEN <<"_", "m", "o", "n", "t", "h", "s">> \o FmtPad(month_range[1], 2)
            \o <<"-">> \o FmtPad(month_range[2], 2)
     ELSE <<>>)

\* "Use default filename pattern"; location_coords is f"{latitude}_{longitude}".
DefaultOutputFile(latitude, longitude, filename_suffix) ==
    ImgDir \o WeatherTrend \o latitude \o <<"_">> \o longitude
      \o filename_suffix \o PngExt

\* output_file of visualizer.py; visualization_openmeteo.py has the default
\* name only.
OutputFile(variant, output_filename, latitude, longitude, filename_suffix) ==
    IF variant = "visualizer" /\ output_filename # <<>>
    THEN CustomOutputFile(output_filename)
    ELSE DefaultOutputFile(latitude, longitude, filename_suffix)

\* The directory of a path: what comes before its last '/', with it.
DirName(path) ==
    LET slashes == {i \in 1..Len(path) : path[i] = "/"}
    IN  IF slashes = {} THEN <<>>
        ELSE SubSeq(path, 1, CHOOSE i \in slashes : \A j \in slashes : j <= i)

\* plt.savefig(output_file): os.makedirs("img", exist_ok=True) made img/; any
\* other directory is there or is not.
SavefigOutcomes(output_file) ==
    IF DirName(output_file) = ImgDir THEN {"saved"}
    ELSE {"saved", "FileNotFoundError"}

(***************************************************************************)
(* The names of the files the fetcher writes and of the files the desktop  *)
(* form looks for.                                                         *)
(***************************************************************************)
UpperChars == <<"A", "B", "C", "D", "E", "F", "G", "H", "I", "J", "K", "L", "M",
                "N", "O", "P", "Q", "R", "S", "T", "U", "V", "W", "X", "Y", "Z">>
LowerChars == <<"a", "b", "c", "d", "e", "f", "g", "h", "i", "j", "k", "l", "m",
                "n", "o", "p", "q", "r", "s", "t", "u", "v", "w", "x", "y", "z">>

\* str.lower(), on ASCII text.
LowerChar(c) ==
    IF \E i \in 1..26 : UpperChars[i] = c
    THEN LowerChars[CHOOSE i \in 1..26 : UpperChars[i] = c]
    ELSE c
Lower(s) == [i \in 1..Len(s) |-> LowerChar(s[i])]

\* str.replace(" ", "_").
ReplaceSpaces(s) == [i \in 1..Len(s) |-> IF s[i] = " " THEN "_" ELSE s[i]]

JsonExt == <<".", "j", "s", "o", "n">>

\* Python truth of an optional str: None and "" are false.
TruthyStr(opt) == opt # <<>> /\ opt[1] # <<>>

\* process_weather_data, "Use custom filename if provided, otherwise use
\* default format" (fetcher.py lines 242-248).
Filename(output_filename, name, start_date, end_date) ==
    IF TruthyStr(output_filename)
    THEN output_filename[1] \o JsonExt
    ELSE ReplaceSpaces(name) \o <<"_">> \o start_date \o <<"_", "t", "o", "_">> \o end_date \o JsonExt

\* The top-level keys of enhanced_data (fetcher.py lines 223-240).
EnhancedDataKeys == {"source", "location", "date_range", "weather_data"}

\* main, check-location mode: the name of the location file (lines 289-293).
LocationFilename(location_output_file, name) ==
    IF TruthyStr(location_output_file)
    THEN location_output_file[1] \o JsonExt
    ELSE <<"l", "o", "c", "a", "t", "i", "o", "n", "_">> \o ReplaceSpaces(name) \o JsonExt

\* The top-level keys of location_data (fetcher.py lines 276-287).
LocationDataKeys == {"source", "query", "location", "lookup_timestamp"}

\* gui.py, run_fetch and run_fetch_and_visualize: weather_filename.
weather_filename(location) ==
    ReplaceSpaces(Lower(location)) \o <<"_", "w", "e", "a", "t", "h", "e", "r", "_", "d", "a", "t", "a", ".", "j", "s", "o", "n">>

\* gui.py, run_check: location_filename.
location_filename(location) ==
    ReplaceSpaces(Lower(location)) \o <<"_", "l", "o", "c", "a", "t", "i", "o", "n", ".", "j", "s", "o", "n">>

\* open_meteo_fetcher.py, main: filename (line 162) and the top-level keys
\* of enhanced_data (lines 143-160).
OpenMeteoFetcherFilename(name, start_date, end_date) ==
    ReplaceSpaces(name) \o <<"_">> \o start_date \o <<"_", "t", "o", "_">> \o end_date \o JsonExt

OpenMeteoFetcherKeys == {"source", "location", "date_range", "weather_data"}

\* The names the geocoding API answers with, and the --output-file and
\* --location-output-file values tried.
PlaceNames == { <<"R", "o", "m", "e">>, <<"N", "e", "w", " ", "Y", "o", "r", "k">> }
OutputFiles == { <<>>, <<<<"r", "o", "m", "e", "_", "w", "e", "a", "t", "h", "e", "r", "_", "d", "a", "t", "a">>>> }
LocationOutputFiles == { <<>>, <<<<"r", "o", "m", "e", "_", "l", "o", "c", "a", "t", "i", "o", "n">>>> }

(***************************************************************************)
(* Inputs tried.                                                           *)
(***************************************************************************)
\* The times datetime.now() is read at: the day after a leap day, a new
\* year's day and an ordinary day, at midnight sharp (0) and later (1).
Nows == {<<2024, 3, 1>>, <<2025, 1, 1>>, <<2026, 11, 2>>} \X {0, 1}

NowOf(p) == p[1] \o <<p[2]>>

YearInputs(n) == {0, 999, 1000, 9999} \cup ((n[1] - YearSpan)..(n[1] + YearSpan))

MonthTexts == {FmtPad(m, 2) : m \in 0..13} \cup {<<" ", "5">>, <<"x", "1">>}

DayTexts == {FmtPad(d, 2) : d \in {0, 1, 28, 29, 30, 31, 32}} \cup {<<" ", "5">>}

Malformed ==
    { <<>>,
      <<"2", "0", "2">>,
      <<"2", "0", "x", "3">>,
      <<"-", "1", "2", "3">>,
      <<"+", "1", "2", "3">>,
      <<"1", "_", "2", "3">>,
      <<"1", "_", "_", "3">>,
      <<"2", "0", "2", "3", "-", "+", "5">>,
      <<" ", "2", "0", "2", "3", " ">>,
      <<"2", "0", "2", "3", "/", "0", "5">>,
      <<"2", "0", "2", "3", "0", "5", "1", "5">>,
      <<"2", "0", "2", "3", "-", "0", "5", "/", "1", "5">>,
      <<"2", "0", "2", "3", "-", "0", "5", "-", "1", "5", "x">> }

DateInputs(n) ==
    LET years == {FmtPad(y, 4) : y \in YearInputs(n)}
        yms == {y \o <<"-">> \o m : y \in years, m \in MonthTexts}
    IN  years \cup yms
          \cup {ym \o <<"-">> \o d : ym \in yms, d \in DayTexts}
          \cup Malformed

\* The start and end dates tried in whole runs of the fetcher.
RunInputs(n) ==
    { FmtPad(n[1] - 1, 4),
      FmtPad(n[1], 4),
      FmtPad(n[1], 4) \o <<"-">> \o FmtPad(n[2], 2),
      FmtPad(n[1] - 1, 4) \o <<"-", "0", "2">>,
      FmtPad(n[1] + 1, 4) \o <<"-", "0", "1", "-", "0", "1">>,
      Strftime(n),
      <<"2", "0", "x", "3">> }

\* The command line before it is read, and a run before it starts.
\* exit: the exit code, read once pc = "exit"; msg: the last message printed;
\* file: the kind of input file; opened: the input file was opened;
\* latitude, longitude: the coordinates of the payload, as text; outcome: how
\* visualize_weather_data ended; exc: the exception that escaped it; charts:
\* the names of the charts written; trend: <<>>, or the trend reported.
NoArgs == [year |-> <<>>, year_range |-> <<>>, month |-> <<>>, month_range |-> <<>>,
           output |-> <<>>, trend |-> FALSE]

\* The desktop form after __init__ and setup_ui: the state of the four
\* trigger buttons, the two fields of the form object the workers use
\* (weather_data_file: None is <<>>), the label location_info, and the
\* workers started so far, in the order they were started.
NoGui == [state |-> [check_location_btn |-> "normal",
                     fetch_btn |-> "normal",
                     visualize_btn |-> "disabled",
                     fetch_and_visualize_btn |-> "normal"],
          location_data |-> "{}",
          weather_data_file |-> <<>>,
          location_info |-> [text |-> "", foreground |-> ""],
          workers |-> <<>>]

NoViz == [variant |-> "", exit |-> 0, msg |-> "", file |-> "", opened |-> FALSE,
          latitude |-> <<>>, longitude |-> <<>>,
          df |-> <<>>, year |-> <<>>, df_year |-> <<>>, df_filtered |-> <<>>,
          df_clean |-> <<>>, yearly_stats |-> <<>>, trend |-> <<>>,
          outcome |-> "", exc |-> "", charts |-> <<>>]

(***************************************************************************)
(* The fetcher: one call of parse_date_input, or one run of main: with     *)
(* --check-location, with --location, --start-date and --end-date          *)
(* (argument mode), or asking for them (interactive mode).                 *)
(***************************************************************************)
\* mode: how main was started; calls: the API calls made so far, each with
\* how it ended; files: the weather files written so far; location_files:
\* the location files written so far; exit: the exit code, read once
\* pc = "exit"; date_inputs: the start and end date as given or typed;
\* location_name: location["name"] of the location found; output_file:
\* args.output_file (None is <<>>); parent: the worker of the desktop form
\* that started the process, 0 when it was started from a shell.
NoRun == [mode |-> "", parent |-> 0, location |-> None, location_name |-> <<>>, output_file |-> <<>>,
          date_inputs |-> <<>>,
          start_date |-> <<>>, end_date |-> <<>>,
          calls |-> <<>>, files |-> <<>>, location_files |-> <<>>, exit |-> 0]

InitFetcher ==
    /\ now \in {NowOf(p) : p \in Nows}
    /\ pc = "idle"
    /\ date_str = <<>>
    /\ is_start = TRUE
    /\ result = None
    /\ run = NoRun
    /\ args = NoArgs
    /\ viz = NoViz
    /\ gui = NoGui

\* A call parse_date_input(date_str, is_start).
CallParseDateInput ==
    /\ pc = "idle"
    /\ \E s \in DateInputs(now), st \in BOOLEAN :
         /\ date_str' = s
         /\ is_start' = st
         /\ result' = parse_date_input(s, st, now)
    /\ pc' = "parsed"
    /\ UNCHANGED <<now, gui, run, args, viz>>

\* get_coordinates(place_name): one GET of the geocoding API.  It returns the
\* first result ("found"), None ("not_found"), or lets the exception of the
\* transport or of raise_for_status() through ("error").
LookupOutcomes == {"found", "not_found", "error"}

GeocodingCall(outcome) == [api |-> "geocoding", outcome |-> outcome]

\* fetch_weather_data(lat, lon, start_date, end_date): one GET of the archive
\* API; it returns the payload or lets the exception through.
ArchiveCall(outcome, start_date, end_date) ==
    [api |-> "archive", outcome |-> outcome,
     start_date |-> start_date, end_date |-> end_date]

\* main, "Handle check-location mode": one lookup, and the location found is
\* written to a location file.  main catches no exception of the lookup: the
\* process dies with code 1.
MainCheckLocationTo(o) ==
    /\ pc = "idle"
    /\ \E outcome \in LookupOutcomes, name \in PlaceNames :
         run' = [run EXCEPT !.mode = "check",
                            !.calls = Append(@, GeocodingCall(outcome)),
                            !.location = IF outcome = "found" THEN "found" ELSE None,
                            !.location_name = IF outcome = "found" THEN name ELSE <<>>,
                            !.location_files =
                                IF outcome = "found"
                                THEN Append(@, [name |-> LocationFilename(o, name),
                                                keys |-> LocationDataKeys])
                                ELSE @,
                            !.exit = IF outcome = "error" THEN 1 ELSE 0]
    /\ pc' = "exit"
    /\ UNCHANGED <<now, gui, date_str, is_start, result, args, viz>>

MainCheckLocation == \E o \in LocationOutputFiles : MainCheckLocationTo(o)

\* main, argument mode: get_coordinates(args.location); "not found" is
\* printed and main returns; an exception is not caught.
MainGeocodeTo(o) ==
    /\ pc = "idle"
    /\ \E outcome \in LookupOutcomes, name \in PlaceNames :
         /\ run' = [run EXCEPT !.mode = "args",
                               !.output_file = o,
                               !.calls = Append(@, GeocodingCall(outcome)),
                               !.location = IF outcome = "found" THEN "found" ELSE None,
                               !.location_name = IF outcome = "found" THEN name ELSE <<>>,
                               !.exit = IF outcome = "error" THEN 1 ELSE 0]
         /\ pc' = IF outcome = "found" THEN "dates" ELSE "exit"
    /\ UNCHANGED <<now, gui, date_str, is_start, result, args, viz>>

MainGeocode == \E o \in OutputFiles : MainGeocodeTo(o)

\* The answers to "Is this the correct location? (y/n)".
Confirmations == {"y", "n", "other"}

\* get_location_interactive, where the loop goes after a lookup.
AfterLookup(outcome, confirmation) ==
    IF outcome = "error" THEN "exit"
    ELSE IF outcome = "found" /\ confirmation = "y" THEN "ask_dates"
    ELSE "ask_location"

\* main, interactive mode: one turn of the loop of get_location_interactive:
\* a name is asked for and looked up; the loop goes on until a location that
\* was found is confirmed.  An exception of the lookup is not caught.
InteractiveLocation ==
    /\ pc \in {"idle", "ask_location"}
    /\ Len(run.calls) < MaxAsks
    /\ \E outcome \in LookupOutcomes, confirmation \in Confirmations,
          name \in PlaceNames, o \in OutputFiles :
         /\ pc = "ask_location" => o = run.output_file
         /\ run' = [run EXCEPT !.mode = "interactive",
                               !.output_file = o,
                               !.calls = Append(@, GeocodingCall(outcome)),
                               !.location = IF AfterLookup(outcome, confirmation) = "ask_dates"
                                            THEN "found" ELSE None,
                               !.location_name = IF AfterLookup(outcome, confirmation) = "ask_dates"
                                                 THEN name ELSE <<>>,
                               !.exit = IF outcome = "error" THEN 1 ELSE 0]
         /\ pc' = AfterLookup(outcome, confirmation)
    /\ UNCHANGED <<now, gui, date_str, is_start, result, args, viz>>

\* The two calls of parse_date_input of main (lines 317-322) and of
\* get_dates_interactive (lines 141-147): what the run goes on with.  A
\* ValueError is printed and main returns; any other exception is not caught.
DatesParsed(sd, ed) ==
    LET caught(r) == r.val \in {"Invalid year format. Please use YYYY.",
                                "Invalid year-month format. Please use YYYY-MM.",
                                "Invalid date format. Please use YYYY-MM-DD.",
                                "Invalid date format. Please use YYYY, YYYY-MM, or YYYY-MM-DD."}
    IN  IF sd.ok /\ ed.ok
        THEN [pc |-> "fetch", start_date |-> sd.val, end_date |-> ed.val, exit |-> 0]
        ELSE IF (~sd.ok /\ caught(sd)) \/ (sd.ok /\ caught(ed))
        THEN [pc |-> "exit", start_date |-> <<>>, end_date |-> <<>>, exit |-> 0]
        ELSE [pc |-> "exit", start_date |-> <<>>, end_date |-> <<>>, exit |-> 1]

\* The two calls with a failure of the end date overlooked.
ParseDatesStartOnly(s, e, n) ==
    DatesParsed(parse_date_input(s, TRUE, n), Returned(Strip(e)))

ParseDates(s, e, n) ==
    DatesParsed(parse_date_input(s, TRUE, n), parse_date_input(e, FALSE, n))

\* main, argument mode: "Parse dates from arguments", the arguments being
\* drawn from inputs.
MainParseDatesOf(inputs) ==
    /\ pc = "dates"
    /\ \E s \in inputs, e \in inputs :
         \E d \in {ParseDates(s, e, now)} :
             /\ run' = [run EXCEPT !.date_inputs = <<s, e>>,
                                   !.start_date = d.start_date,
                                   !.end_date = d.end_date,
                                   !.exit = d.exit]
             /\ pc' = d.pc
    /\ UNCHANGED <<now, gui, date_str, is_start, result, args, viz>>

MainParseDates == MainParseDatesOf(RunInputs(now))

\* main, interactive mode: get_dates_interactive, and the return of main when
\* it gave (None, None).  The two texts typed may be empty.
InteractiveDates ==
    /\ pc = "ask_dates"
    /\ \E s \in RunInputs(now) \cup {<<>>}, e \in RunInputs(now) \cup {<<>>} :
         \E d \in {ParseDates(s, e, now)} :
             /\ run' = [run EXCEPT !.date_inputs = <<s, e>>,
                                   !.start_date = d.start_date,
                                   !.end_date = d.end_date,
                                   !.exit = d.exit]
             /\ pc' = d.pc
    /\ UNCHANGED <<now, gui, date_str, is_start, result, args, viz>>

\* process_weather_data with a failed archive call tried again.
AfterFetchRetrying(ok) == IF ok THEN "persist" ELSE "fetch"

\* process_weather_data, where it goes after the archive call: on to the
\* dump, or "return False".
AfterFetch(ok) == IF ok THEN "persist" ELSE "exit"

\* process_weather_data: fetch_weather_data(lat, lon, start_date, end_date);
\* any exception is printed and False is returned, which main drops: the
\* process ends with code 0.
ProcessFetch ==
    /\ pc = "fetch"
    /\ \E ok \in BOOLEAN :
         /\ run' = [run EXCEPT
                      !.calls = Append(@, ArchiveCall(IF ok THEN "ok" ELSE "error",
                                                      run.start_date, run.end_date)),
                      !.exit = 0]
         /\ pc' = AfterFetch(ok)
    /\ UNCHANGED <<now, gui, date_str, is_start, result, args, viz>>

\* process_weather_data: enhanced_data is dumped to the output file.
ProcessPersist ==
    /\ pc = "persist"
    /\ run' = [run EXCEPT
                 !.files = Append(@, [name |-> Filename(run.output_file, run.location_name,
                                                        run.start_date, run.end_date),
                                      keys |-> EnhancedDataKeys,
                                      date_range |-> [start_date |-> run.start_date,
                                                      end_date |-> run.end_date]]),
                 !.exit = 0]
    /\ pc' = "exit"
    /\ UNCHANGED <<now, gui, date_str, is_start, result, args, viz>>

\* parse_date_input of the duplicate fetcher, called with the arguments of
\* the call just made; its result is kept beside the other.
OpenMeteoFetcherCallParseDateInput ==
    /\ pc = "parsed"
    /\ result' = [ok |-> result.ok, val |-> result.val,
                  duplicate |-> open_meteo_fetcher_parse_date_input(date_str, is_start, now)]
    /\ pc' = "parsed_twice"
    /\ UNCHANGED <<now, gui, date_str, is_start, run, args, viz>>

\* open_meteo_fetcher.py, main, lines 110-119: the place is asked for and
\* looked up once; "not found" is printed and main returns; an exception of
\* the lookup is not caught.
OpenMeteoFetcherMainLocation ==
    /\ pc = "idle"
    /\ \E outcome \in LookupOutcomes, name \in PlaceNames :
         /\ run' = [run EXCEPT !.mode = "open_meteo_fetcher",
                               !.calls = Append(@, GeocodingCall(outcome)),
                               !.location = IF outcome = "found" THEN "found" ELSE None,
                               !.location_name = IF outcome = "found" THEN name ELSE <<>>,
                               !.exit = IF outcome = "error" THEN 1 ELSE 0]
         /\ pc' = IF outcome = "found" THEN "open_meteo_fetcher_dates" ELSE "exit"
    /\ UNCHANGED <<now, gui, date_str, is_start, result, args, viz>>

\* open_meteo_fetcher.py, main, lines 121-130: the two dates are asked for and
\* parsed; a ValueError is printed and main returns, any other exception is
\* not caught.
OpenMeteoFetcherMainDates ==
    /\ pc = "open_meteo_fetcher_dates"
    /\ \E s \in RunInputs(now) \cup {<<>>}, e \in RunInputs(now) \cup {<<>>} :
         \E sd \in {open_meteo_fetcher_parse_date_input(s, TRUE, now)},
            ed \in {open_meteo_fetcher_parse_date_input(e, FALSE, now)} :
             \E failed \in {IF ~sd.ok THEN <<sd.val>> ELSE IF ~ed.ok THEN <<ed.val>> ELSE <<>>} :
                 /\ run' = [run EXCEPT
                              !.date_inputs = <<s, e>>,
                              !.start_date = IF failed = <<>> THEN sd.val ELSE <<>>,
                              !.end_date = IF failed = <<>> THEN ed.val ELSE <<>>,
                              !.exit = IF failed = <<"OverflowError: date value out of range">>
                                       THEN 1 ELSE 0]
                 /\ pc' = IF failed = <<>> THEN "open_meteo_fetcher_fetch" ELSE "exit"
    /\ UNCHANGED <<now, gui, date_str, is_start, result, args, viz>>

\* open_meteo_fetcher.py, main, lines 134-140: fetch_weather_data; any
\* exception is printed and main returns.
OpenMeteoFetcherMainFetch ==
    /\ pc = "open_meteo_fetcher_fetch"
    /\ \E ok \in BOOLEAN :
         /\ run' = [run EXCEPT
                      !.calls = Append(@, ArchiveCall(IF ok THEN "ok" ELSE "error",
                                                      run.start_date, run.end_date))]
         /\ pc' = IF ok THEN "open_meteo_fetcher_persist" ELSE "exit"
    /\ UNCHANGED <<now, gui, date_str, is_start, result, args, viz>>

\* open_meteo_fetcher.py, main, lines 142-166: enhanced_data is dumped to
\* filename.
OpenMeteoFetcherMainPersist ==
    /\ pc = "open_meteo_fetcher_persist"
    /\ run' = [run EXCEPT
                 !.files = Append(@, [name |-> OpenMeteoFetcherFilename(run.location_name,
                                                   run.start_date, run.end_date),
                                      keys |-> OpenMeteoFetcherKeys,
                                      date_range |-> [start_date |-> run.start_date,
                                                      end_date |-> run.end_date]])]
    /\ pc' = "exit"
    /\ UNCHANGED <<now, gui, date_str, is_start, result, args, viz>>

NextFetcher ==
    \/ CallParseDateInput
    \/ OpenMeteoFetcherCallParseDateInput
    \/ OpenMeteoFetcherMainLocation
    \/ OpenMeteoFetcherMainDates
    \/ OpenMeteoFetcherMainFetch
    \/ OpenMeteoFetcherMainPersist
    \/ MainCheckLocation
    \/ MainGeocode
    \/ InteractiveLocation
    \/ MainParseDates
    \/ InteractiveDates
    \/ ProcessFetch
    \/ ProcessPersist

SpecFetcher == InitFetcher /\ [][NextFetcher]_vars

(***************************************************************************)
(* The visualization command: python visualizer.py FILE [filters], and the *)
(* same for visualization_openmeteo.py.                                    *)
(***************************************************************************)
Variants == {"visualizer", "visualization_openmeteo"}

\* The times the visualizer reads datetime.now() at.
VizNows == {<<2024, 3, 1, 0>>, <<2026, 11, 2, 0>>}

\* Years of the rows of the input file: up to and including the current one.
RowYears(n) == {n[1] - 2, n[1] - 1, n[1]}

\* --year and --year-range take any int.
ArgYears(n) == {0} \cup RowYears(n)

\* The temperatures of a day: <<temp_min, temp_max, temp_mean>>.
Temps == { <<<<3>>, <<11>>, <<>>>>, <<<<1>>, <<9>>, <<4>>>>, <<<<>>, <<7>>, <<6>>>> }

\* The days a file can hold: none later than the current month.
RowsOf(years, months, n) ==
    {Row(ym[1], ym[2], t[1], t[2], t[3]) :
        ym \in {p \in years \X months : p[1] < n[1] \/ (p[1] = n[1] /\ p[2] <= n[2])},
        t \in Temps}

\* The rows of a file are in the order of their dates.
Chronological(s) ==
    \A i \in 1..(Len(s) - 1) :
        \/ s[i].year < s[i + 1].year
        \/ s[i].year = s[i + 1].year /\ s[i].month <= s[i + 1].month

Payloads(rows, maxlen) ==
    {s \in UNION {[1..k -> rows] : k \in 0..maxlen} : Chronological(s)}

\* The input files that are not as the fetcher writes them: absent, not
\* JSON, without "weather_data", without "daily", with daily arrays that do
\* not have the same length.
BadFiles == {"missing", "not_json", "no_weather_data", "no_daily", "unequal_arrays"}

\* The coordinates of a payload: <<latitude, longitude>> as f"{...}" gives
\* them.
Milan == <<<<"4", "5", ".", "5">>, <<"9", ".", "2">>>>

\* The input files tried: the bad ones, or holding the rows of a payload and
\* coordinates.
Files(payloads, coords) ==
    {[kind |-> k, rows |-> <<>>, latitude |-> <<>>, longitude |-> <<>>] : k \in BadFiles}
      \cup {[kind |-> "ok", rows |-> s, latitude |-> c[1], longitude |-> c[2]] :
               s \in payloads, c \in coords}

OptYear(n) == {<<>>} \cup {<<y>> : y \in ArgYears(n)}
OptYearRange(n) == {<<>>} \cup (RowYears(n) \X RowYears(n))

\* starts: the pairs <<datetime.now(), command line>> a run may start from.
InitVizWith(starts) ==
    /\ \E p \in starts : now = p[1] /\ args = p[2]
    /\ pc = "cli"
    /\ date_str = <<>>
    /\ is_start = TRUE
    /\ result = None
    /\ run = NoRun
    /\ \E v \in Variants :
         viz = [NoViz EXCEPT !.variant = v]
    /\ gui = NoGui

\* parser.parse_args() and "Validate arguments": exit(1) with a message, or
\* on to the call of visualize_weather_data.  visualization_openmeteo.py has
\* no --output and no --trend: argparse ends the command with code 2.
VizValidate ==
    /\ pc = "cli"
    /\ LET msg == IF viz.variant = "visualizer" THEN ValidateArgs(args)
                  ELSE ValidateArgsOpenMeteo(args)
       IN  IF viz.variant = "visualization_openmeteo" /\ (args.output # <<>> \/ args.trend)
           THEN /\ viz' = [viz EXCEPT !.exit = 2, !.msg = "unrecognized arguments"]
                /\ pc' = "exit"
           ELSE IF msg # ""
           THEN /\ viz' = [viz EXCEPT !.exit = 1, !.msg = msg]
                /\ pc' = "exit"
           ELSE /\ viz' = viz
                /\ pc' = "load"
    /\ UNCHANGED <<now, gui, date_str, is_start, result, run, args>>

\* visualize_weather_data up to the data frame (lines 26-72): the file is
\* looked for, read, and its daily arrays become the rows of df.  json.load
\* and pd.DataFrame raise, and nothing catches: the command dies with code 1.
VizLoad(files) ==
    /\ pc = "load"
    /\ \E f \in files :
         CASE f.kind = "missing" ->
                /\ viz' = [viz EXCEPT !.file = f.kind,
                                      !.msg = "File not found.", !.outcome = "not_found"]
                /\ pc' = "exit"
           [] f.kind = "not_json" ->
                /\ viz' = [viz EXCEPT !.file = f.kind, !.opened = TRUE,
                                      !.exc = "json.JSONDecodeError", !.exit = 1,
                                      !.outcome = "load_exception"]
                /\ pc' = "exit"
           [] f.kind = "no_weather_data" ->
                /\ viz' = [viz EXCEPT !.file = f.kind, !.opened = TRUE,
                                      !.msg = "No weather data found in the file.",
                                      !.outcome = "no_weather_data"]
                /\ pc' = "exit"
           [] f.kind = "no_daily" ->
                /\ viz' = [viz EXCEPT !.file = f.kind, !.opened = TRUE,
                                      !.msg = "No daily data found in the file.",
                                      !.outcome = "no_daily_data"]
                /\ pc' = "exit"
           [] f.kind = "unequal_arrays" ->
                /\ viz' = [viz EXCEPT !.file = f.kind, !.opened = TRUE,
                                      !.exc = "ValueError: All arrays must be of the same length",
                                      !.exit = 1,
                                      !.outcome = "load_exception"]
                /\ pc' = "exit"
           [] OTHER ->
                /\ viz' = [viz EXCEPT !.file = f.kind, !.opened = TRUE,
                                      !.latitude = f.latitude,
                                      !.longitude = f.longitude,
                                      !.df = f.rows]
                /\ pc' = "filter"
    /\ UNCHANGED <<now, gui, date_str, is_start, result, run, args>>

\* The filters and the drop of the rows without a mean (visualizer.py lines
\* 74-157, visualization_openmeteo.py lines 64-108).
VizFilter ==
    /\ pc = "filter"
    /\ LET yf == IF viz.variant = "visualizer"
                 THEN YearFilter(viz.df, args.year, args.year_range, now)
                 ELSE YearFilterOpenMeteo(viz.df, args.year, args.year_range)
           mf == IF viz.variant = "visualizer"
                 THEN MonthFilter(yf.df, args.month, args.month_range, now)
                 ELSE MonthFilterOpenMeteo(yf.df, args.month, args.month_range)
           clean == DropNA(mf.df)
       IN  IF yf.ret
           THEN /\ viz' = [viz EXCEPT !.msg = "No data available: start year is current year or later",
                                      !.outcome = "no_data_available"]
                /\ pc' = "exit"
           ELSE IF mf.exc # ""
           THEN /\ viz' = [viz EXCEPT !.year = yf.year, !.df_year = yf.df,
                                      !.exc = mf.exc, !.exit = 1,
                                      !.outcome = "exception"]
                /\ pc' = "exit"
           ELSE IF clean = <<>>
           THEN /\ viz' = [viz EXCEPT !.year = yf.year, !.df_year = yf.df,
                                      !.df_filtered = mf.df, !.df_clean = clean,
                                      !.msg = "No usable temperature data found.",
                                      !.outcome = "no_usable_data"]
                /\ pc' = "exit"
           ELSE /\ viz' = [viz EXCEPT !.year = yf.year, !.df_year = yf.df,
                                      !.df_filtered = mf.df, !.df_clean = clean]
                /\ pc' = "plot"
    /\ UNCHANGED <<now, gui, date_str, is_start, result, run, args>>

\* "Compute yearly average", the plot and "Save to file" (visualizer.py lines
\* 159-366, visualization_openmeteo.py lines 110-206).
VizPlot ==
    /\ pc = "plot"
    /\ LET output_file ==
               OutputFile(viz.variant, args.output, viz.latitude, viz.longitude,
                          FilenameSuffix(viz.year, args.year_range,
                                         args.month, args.month_range))
       IN  \E saved \in SavefigOutcomes(output_file) :
             IF saved = "saved"
             THEN viz' = [viz EXCEPT !.yearly_stats = GroupByYear(viz.df_clean),
                                     !.trend = IF args.trend
                                               THEN <<Trend(GroupByYear(viz.df_clean))>>
                                               ELSE <<>>,
                                     !.charts = Append(@, output_file),
                                     !.msg = "Grafico salvato",
                                     !.outcome = "chart"]
             ELSE viz' = [viz EXCEPT !.yearly_stats = GroupByYear(viz.df_clean),
                                     !.trend = IF args.trend
                                               THEN <<Trend(GroupByYear(viz.df_clean))>>
                                               ELSE <<>>,
                                     !.exc = saved, !.exit = 1,
                                     !.outcome = "exception"]
    /\ pc' = "exit"
    /\ UNCHANGED <<now, gui, date_str, is_start, result, run, args>>

\* The filters tried with small files.
ArgMonths == {<<>>, <<2>>, <<11>>}
ArgMonthRanges == {<<>>} \cup ({0, 2, 11, 13} \X {0, 2, 11, 13})
RowMonths == {2, 11}

VizStarts ==
    UNION {{<<n, a>> : a \in [year : OptYear(n), year_range : OptYearRange(n),
                               month : ArgMonths, month_range : ArgMonthRanges,
                               output : {<<>>}, trend : {FALSE}]}
           : n \in VizNows}

InitViz == InitVizWith(VizStarts)

NextViz ==
    \/ VizValidate
    \/ VizLoad(Files(Payloads(RowsOf(RowYears(now), RowMonths, now), MaxRows), {Milan}))
    \/ VizFilter
    \/ VizPlot

SpecViz == InitViz /\ [][NextViz]_vars

\* Every month range against a file holding one day of each of the 24 months
\* that end with the current month.
Calendar(n) ==
    [i \in 1..24 |->
        LET k == 12 * n[1] + (n[2] - 1) - (24 - i)
        IN  Row(k \div 12, (k % 12) + 1, <<1>>, <<9>>, <<4>>)]

AllMonthRanges == (1..12) \X (1..12)

MonthsStarts ==
    UNION {{<<n, a>> : a \in [year : {<<>>, <<n[1] - 1>>}, year_range : {<<>>},
                               month : {<<>>}, month_range : AllMonthRanges,
                               output : {<<>>}, trend : {FALSE}]}
           : n \in VizNows}

InitMonths == InitVizWith(MonthsStarts)

NextMonths ==
    \/ VizValidate
    \/ VizLoad(Files({Calendar(now)}, {Milan}))
    \/ VizFilter
    \/ VizPlot

SpecMonths == InitMonths /\ [][NextMonths]_vars

\* Runs with and without --trend, on files of up to MaxRows + 1 days of
\* February in the three years before the current one.
TrendYears(n) == {n[1] - 3, n[1] - 2, n[1] - 1}

TrendStarts ==
    UNION {{<<n, a>> : a \in [year : {<<>>, <<n[1] - 1>>},
                               year_range : {<<>>, <<n[1] - 3, n[1] - 2>>},
                               month : {<<>>},
                               month_range : {<<>>, <<11, 2>>},
                               output : {<<>>}, trend : BOOLEAN]}
           : n \in VizNows}

InitTrend == InitVizWith(TrendStarts)

NextTrend ==
    \/ VizValidate
    \/ VizLoad(Files(Payloads(RowsOf(TrendYears(now), {2}, now), MaxRows + 1), {Milan}))
    \/ VizFilter
    \/ VizPlot

SpecTrend == InitTrend /\ [][NextTrend]_vars

\* The names given with --output: none, a bare name without and with .png, a
\* name that is "png", names with a directory, relative, absolute and img/.
OutputNames ==
    { <<>>,
      <<"o">>,
      <<"o", ".", "p", "n", "g">>,
      <<"p", "n", "g">>,
      <<"d", "/", "o">>,
      <<"/", "t", "/", "o", ".", "p", "n", "g">>,
      <<"i", "m", "g", "/", "o">> }

\* Payloads with coordinates and without ("" is what .get gives then).
Coordinates == {Milan, <<<<>>, <<>>>>}

OutputStarts ==
    UNION {{<<n, a>> : a \in [year : {<<>>, <<n[1] - 1>>, <<n[1]>>},
                               year_range : {<<>>, <<n[1] - 2, n[1] - 1>>},
                               month : {<<>>, <<2>>},
                               month_range : {<<>>, <<11, 2>>},
                               output : OutputNames, trend : {FALSE}]}
           : n \in VizNows}

InitOutput == InitVizWith(OutputStarts)

NextOutput ==
    \/ VizValidate
    \/ VizLoad(Files(Payloads(RowsOf({now[1] - 1}, {2}, now), MaxRows - 1), Coordinates))
    \/ VizFilter
    \/ VizPlot

SpecOutput == InitOutput /\ [][NextOutput]_vars

(***************************************************************************)
(* The desktop form (gui.py).  The handlers of the four trigger buttons    *)
(* run on the UI thread; each starts one worker thread, which runs the     *)
(* command, looks for its output file and gives the button back.  A worker *)
(* is [button, pc, outcome, location]: the button that started it, where it *)
(* is, how its last subprocess.run ended, and the location its handler     *)
(* read from the location entry.                                           *)
(***************************************************************************)
Buttons == {"check_location_btn", "fetch_btn", "visualize_btn", "fetch_and_visualize_btn"}

\* subprocess.run(cmd, capture_output=True, text=True, check=True): the
\* command ended with code 0, with another code, or could not be started.
SubprocessOutcomes == {"ok", "CalledProcessError", "Exception"}

\* The worker w has been started and has not ended.
Running(w) == w \in 1..Len(gui.workers) /\ gui.workers[w].pc # "done"

\* btn.config(state="disabled"), then threading.Thread(target=...).start().
StartWorker(btn, at, location) ==
    [gui EXCEPT !.state[btn] = "disabled",
                !.workers = Append(@, [button |-> btn, pc |-> at,
                                       outcome |-> "", location |-> location])]

\* self.location_entry.get().strip(): nothing typed, or a place.
Locations == { <<>>, <<"N", "e", "w", " ", "Y", "o", "r", "k">> }

\* A click on an enabled button whose handler finds the location and the
\* other entries it needs filled (filled), or shows an error and returns.
Click(btn, at) ==
    /\ pc = "form"
    /\ gui.state[btn] = "normal"
    /\ Len(gui.workers) < MaxWorkers
    /\ \E location \in Locations, filled \in BOOLEAN :
         gui' = IF location # <<>> /\ filled THEN StartWorker(btn, at, location) ELSE gui
    /\ UNCHANGED <<now, pc, date_str, is_start, result, run, args, viz>>

\* check_location (lines 255-263, 314-317).
ClickCheckLocation == Click("check_location_btn", "subprocess")

\* fetch_weather_data (lines 371-384, 427-430).
ClickFetch == Click("fetch_btn", "subprocess")

\* fetch_and_visualize (lines 492-503, 577-580).
ClickFetchAndVisualize == Click("fetch_and_visualize_btn", "subprocess")

\* visualize_data (lines 432-441, 487-490): without a weather_data_file that
\* exists it shows an error and returns.
ClickVisualize ==
    /\ pc = "form"
    /\ gui.state["visualize_btn"] = "normal"
    /\ Len(gui.workers) < MaxWorkers
    /\ \E exists \in BOOLEAN :
         gui' = IF gui.weather_data_file # <<>> /\ exists
                THEN StartWorker("visualize_btn", "build", <<>>)
                ELSE gui
    /\ UNCHANGED <<now, pc, date_str, is_start, result, run, args, viz>>

\* The worker w, started by btn, is at the step `at`.
At(w, btn, at) ==
    /\ pc = "form"
    /\ w \in 1..Len(gui.workers)
    /\ gui.workers[w].button = btn
    /\ gui.workers[w].pc = at

\* The texts run_check puts on the label location_info.
Found == [text |-> "Found: ...", foreground |-> "green"]
LocationNotFound == [text |-> "Location not found", foreground |-> "red"]
LocationCheckCompleted == [text |-> "Location check completed", foreground |-> "green"]
ErrorCheckingLocation == [text |-> "Error checking location", foreground |-> "red"]

\* run_check, lines 266-277 and 291-312: the command ended with outcome, and
\* os.path.exists(location_filename) gave exists.
RunCheckWith(w, outcome, exists) ==
    /\ At(w, "check_location_btn", "subprocess")
    /\ gui' = IF outcome # "ok"
              THEN [gui EXCEPT !.workers[w].outcome = outcome,
                               !.workers[w].pc = "dialog",
                               !.location_info = ErrorCheckingLocation]
              ELSE IF exists
              THEN [gui EXCEPT !.workers[w].outcome = outcome,
                               !.workers[w].pc = "load"]
              ELSE [gui EXCEPT !.workers[w].outcome = outcome,
                               !.workers[w].pc = "finally",
                               !.location_info = LocationCheckCompleted]
    /\ UNCHANGED <<now, pc, date_str, is_start, result, run, args, viz>>

RunCheck(w) ==
    \E outcome \in SubprocessOutcomes, exists \in BOOLEAN : RunCheckWith(w, outcome, exists)

\* run_check, lines 278-290 and 304-310: self.location_data = json.load(f),
\* which raises when the file is not JSON, and the text shown for it.
RunCheckLoadWith(w, content) ==
    /\ At(w, "check_location_btn", "load")
    /\ gui' = IF content = "not JSON"
              THEN [gui EXCEPT !.workers[w].outcome = "Exception",
                               !.workers[w].pc = "dialog",
                               !.location_info = ErrorCheckingLocation]
              ELSE [gui EXCEPT !.location_data = content,
                               !.location_info = IF content = "results" THEN Found
                                                 ELSE LocationNotFound,
                               !.workers[w].pc = "finally"]
    /\ UNCHANGED <<now, pc, date_str, is_start, result, run, args, viz>>

RunCheckLoad(w) ==
    \E content \in {"results", "no results", "not JSON"} : RunCheckLoadWith(w, content)

\* run_fetch, lines 387-408 and 413-423: the command ended with outcome, and
\* os.path.exists(weather_filename) gave exists.
RunFetchWith(w, outcome, exists) ==
    /\ At(w, "fetch_btn", "subprocess")
    /\ gui' = [gui EXCEPT !.workers[w].outcome = outcome,
                          !.workers[w].pc = IF outcome # "ok" THEN "dialog"
                                            ELSE IF exists THEN "record"
                                            ELSE "finally"]
    /\ UNCHANGED <<now, pc, date_str, is_start, result, run, args, viz>>

RunFetch(w) ==
    \E outcome \in SubprocessOutcomes, exists \in BOOLEAN : RunFetchWith(w, outcome, exists)

\* run_fetch, lines 409-412: self.weather_data_file = weather_filename and
\* self.visualize_btn.config(state="normal").
RunFetchRecord(w) ==
    /\ At(w, "fetch_btn", "record")
    /\ gui' = [gui EXCEPT !.weather_data_file = <<weather_filename(gui.workers[w].location)>>,
                          !.state["visualize_btn"] = "normal",
                          !.workers[w].pc = "finally"]
    /\ UNCHANGED <<now, pc, date_str, is_start, result, run, args, viz>>

\* run_visualization, lines 444-467: cmd is built from self.weather_data_file.
RunVisualizationBuild(w) ==
    /\ At(w, "visualize_btn", "build")
    /\ gui' = [gui EXCEPT !.workers[w].pc = "subprocess"]
    /\ UNCHANGED <<now, pc, date_str, is_start, result, run, args, viz>>

\* run_visualization, lines 469-483: the command.
RunVisualization(w) ==
    /\ At(w, "visualize_btn", "subprocess")
    /\ \E outcome \in SubprocessOutcomes :
         gui' = [gui EXCEPT !.workers[w].outcome = outcome,
                            !.workers[w].pc = IF outcome # "ok" THEN "dialog"
                                              ELSE "finally"]
    /\ UNCHANGED <<now, pc, date_str, is_start, result, run, args, viz>>

\* run_fetch_and_visualize, lines 506-530: the fetch command ended with
\* outcome, and os.path.exists(weather_filename) gave exists; "Weather data
\* file not found after fetching" is raised.
RunFetchAndVisualizeWith(w, outcome, exists) ==
    /\ At(w, "fetch_and_visualize_btn", "subprocess")
    /\ gui' = [gui EXCEPT !.workers[w].outcome = IF outcome = "ok" /\ ~exists
                                                 THEN "Exception" ELSE outcome,
                          !.workers[w].pc = IF outcome = "ok" /\ exists
                                            THEN "record" ELSE "dialog"]
    /\ UNCHANGED <<now, pc, date_str, is_start, result, run, args, viz>>

RunFetchAndVisualize(w) ==
    \E outcome \in SubprocessOutcomes, exists \in BOOLEAN :
        RunFetchAndVisualizeWith(w, outcome, exists)

\* run_fetch_and_visualize, lines 532-559: self.weather_data_file =
\* weather_filename, and viz_cmd is built from weather_filename.
RunFetchAndVisualizeRecord(w) ==
    /\ At(w, "fetch_and_visualize_btn", "record")
    /\ gui' = [gui EXCEPT !.weather_data_file = <<weather_filename(gui.workers[w].location)>>,
                          !.workers[w].pc = "visualize"]
    /\ UNCHANGED <<now, pc, date_str, is_start, result, run, args, viz>>

\* run_fetch_and_visualize, lines 561-573: the visualization command, then
\* self.visualize_btn.config(state="normal").
RunFetchAndVisualizeShow(w) ==
    /\ At(w, "fetch_and_visualize_btn", "visualize")
    /\ \E outcome \in SubprocessOutcomes :
         gui' = IF outcome = "ok"
                THEN [gui EXCEPT !.state["visualize_btn"] = "normal",
                                 !.workers[w].outcome = outcome,
                                 !.workers[w].pc = "finally"]
                ELSE [gui EXCEPT !.workers[w].outcome = outcome,
                                 !.workers[w].pc = "dialog"]
    /\ UNCHANGED <<now, pc, date_str, is_start, result, run, args, viz>>

\* messagebox.showerror(...) in an except clause of a worker returns when the
\* user closes the dialog.
DismissDialog(w) ==
    /\ pc = "form"
    /\ w \in 1..Len(gui.workers)
    /\ gui.workers[w].pc = "dialog"
    /\ gui' = [gui EXCEPT !.workers[w].pc = "finally"]
    /\ UNCHANGED <<now, pc, date_str, is_start, result, run, args, viz>>

\* The finally clause with the button left as it is.
FinallyStateForgotten(state, btn) == state

\* The finally clause of a worker: btn.config(state="normal").
FinallyState(state, btn) == [state EXCEPT ![btn] = "normal"]

\* finally, and the end of the thread.
Finally(w) ==
    /\ pc = "form"
    /\ w \in 1..Len(gui.workers)
    /\ gui.workers[w].pc = "finally"
    /\ gui' = [gui EXCEPT !.state = FinallyState(@, gui.workers[w].button),
                          !.workers[w].pc = "done"]
    /\ UNCHANGED <<now, pc, date_str, is_start, result, run, args, viz>>

InitGui ==
    /\ now = <<2026, 11, 2, 0>>
    /\ pc = "form"
    /\ date_str = <<>>
    /\ is_start = TRUE
    /\ result = None
    /\ run = NoRun
    /\ args = NoArgs
    /\ viz = NoViz
    /\ gui = NoGui

\* The steps of the worker w that need nothing but the thread to be
\* scheduled and its command to end.
WorkerStep(w) ==
    \/ RunCheck(w)
    \/ RunCheckLoad(w)
    \/ RunFetch(w)
    \/ RunFetchRecord(w)
    \/ RunVisualizationBuild(w)
    \/ RunVisualization(w)
    \/ RunFetchAndVisualize(w)
    \/ RunFetchAndVisualizeRecord(w)
    \/ RunFetchAndVisualizeShow(w)
    \/ Finally(w)

NextGui ==
    \/ ClickCheckLocation
    \/ ClickFetch
    \/ ClickVisualize
    \/ ClickFetchAndVisualize
    \/ \E w \in 1..MaxWorkers : WorkerStep(w)
    \/ \E w \in 1..MaxWorkers : DismissDialog(w)

SpecGui == InitGui /\ [][NextGui]_vars

\* The form with no more than MaxLiveWorkers workers started.
NextGuiLive ==
    \/ Len(gui.workers) < MaxLiveWorkers /\ ClickCheckLocation
    \/ Len(gui.workers) < MaxLiveWorkers /\ ClickFetch
    \/ Len(gui.workers) < MaxLiveWorkers /\ ClickVisualize
    \/ Len(gui.workers) < MaxLiveWorkers /\ ClickFetchAndVisualize
    \/ \E w \in 1..MaxLiveWorkers : WorkerStep(w)
    \/ \E w \in 1..MaxLiveWorkers : DismissDialog(w)

\* Every thread is scheduled and every command ends; nothing makes the user
\* click a button or close a dialog.
SpecGuiLive ==
    InitGui /\ [][NextGuiLive]_vars /\ \A w \in 1..MaxLiveWorkers : WF_vars(WorkerStep(w))

(***************************************************************************)
(* The desktop form with the fetcher it runs: subprocess.run of a worker   *)
(* starts fetcher.py in the working directory of the form, the process     *)
(* runs main to its end, and the worker goes on with the exit code and     *)
(* with the files then in the directory (run.files, run.location_files).   *)
(***************************************************************************)
\* The worker w waits for the fetcher it started.
Waiting(w) ==
    /\ w \in 1..Len(gui.workers)
    /\ run.parent = w
    /\ gui.workers[w].pc = "subprocess"

\* subprocess.run(cmd, ...) with cmd[0] = self.fetcher_script: the process
\* starts.  One fetcher runs at a time.
Spawn(w) ==
    /\ pc = "form"
    /\ w \in 1..Len(gui.workers)
    /\ gui.workers[w].button \in {"check_location_btn", "fetch_btn", "fetch_and_visualize_btn"}
    /\ gui.workers[w].pc = "subprocess"
    /\ ~Waiting(run.parent)
    /\ run' = [NoRun EXCEPT !.parent = w,
                            !.files = run.files,
                            !.location_files = run.location_files]
    /\ pc' = "idle"
    /\ UNCHANGED <<now, gui, date_str, is_start, result, args, viz>>

\* cmd = [self.fetcher_script, "--check-location", location] (line 268).
SpawnedCheckLocation ==
    /\ run.parent \in 1..Len(gui.workers)
    /\ gui.workers[run.parent].button = "check_location_btn"
    /\ MainCheckLocationTo(<<>>)

\* cmd = [self.fetcher_script, "--location", location, "--start-date",
\* start_date, "--end-date", end_date] (lines 389-397 and 508-516).
SpawnedGeocode ==
    /\ run.parent \in 1..Len(gui.workers)
    /\ gui.workers[run.parent].button \in {"fetch_btn", "fetch_and_visualize_btn"}
    /\ MainGeocodeTo(<<>>)

\* self.start_date_entry.get().strip() and self.end_date_entry.get().strip(),
\* when not empty.
DatesTyped(n) == { FmtPad(n[1] - 1, 4), FmtPad(n[1], 4), <<"2", "0", "x", "3">> }

SpawnedParseDates == MainParseDatesOf(DatesTyped(now))

\* The process has ended; subprocess.run returns.
ProcessExit ==
    /\ pc = "exit"
    /\ run.parent # 0
    /\ pc' = "form"
    /\ UNCHANGED <<now, gui, date_str, is_start, result, run, args, viz>>

\* check=True: a code other than 0 raises CalledProcessError.
ExitOutcome(code) == IF code = 0 THEN "ok" ELSE "CalledProcessError"

\* os.path.exists(name) in the working directory.
Exists(name) ==
    \/ \E i \in 1..Len(run.files) : run.files[i].name = name
    \/ \E i \in 1..Len(run.location_files) : run.location_files[i].name = name

\* json.load of the location file of that name, a file the fetcher wrote:
\* what self.location_data.get("results") finds in it.
Content(name) ==
    IF \E i \in 1..Len(run.location_files) :
           run.location_files[i].name = name /\ "results" \in run.location_files[i].keys
    THEN "results"
    ELSE "no results"

\* The steps of the worker w after its fetcher has ended, and its other
\* steps.
FormWorkerStep(w) ==
    \/ Waiting(w) /\ RunCheckWith(w, ExitOutcome(run.exit),
                                   Exists(location_filename(gui.workers[w].location)))
    \/ w \in 1..Len(gui.workers)
          /\ RunCheckLoadWith(w, Content(location_filename(gui.workers[w].location)))
    \/ Waiting(w) /\ RunFetchWith(w, ExitOutcome(run.exit),
                                   Exists(weather_filename(gui.workers[w].location)))
    \/ RunFetchRecord(w)
    \/ Waiting(w) /\ RunFetchAndVisualizeWith(w, ExitOutcome(run.exit),
                                               Exists(weather_filename(gui.workers[w].location)))
    \/ RunFetchAndVisualizeRecord(w)
    \/ RunFetchAndVisualizeShow(w)
    \/ Finally(w)

\* The files in the working directory when the form is started: none, or
\* files an earlier run of the fetcher wrote under the names the form looks
\* for (--output-file new_york_weather_data, --location-output-file
\* new_york_location).
Directories ==
    { [files |-> <<>>, location_files |-> <<>>],
      [files |-> << [name |-> Filename(<<<<"n", "e", "w", "_", "y", "o", "r", "k", "_", "w", "e", "a", "t", "h", "e", "r", "_", "d", "a", "t", "a">>>>, <<"N", "e", "w", " ", "Y", "o", "r", "k">>, <<"2", "0", "2", "3", "-", "0", "1", "-", "0", "1">>, <<"2", "0", "2", "3", "-", "1", "2", "-", "3", "1">>),
                     keys |-> EnhancedDataKeys,
                     date_range |-> [start_date |-> <<"2", "0", "2", "3", "-", "0", "1", "-", "0", "1">>, end_date |-> <<"2", "0", "2", "3", "-", "1", "2", "-", "3", "1">>]] >>,
       location_files |-> << [name |-> LocationFilename(<<<<"n", "e", "w", "_", "y", "o", "r", "k", "_", "l", "o", "c", "a", "t", "i", "o", "n">>>>, <<"N", "e", "w", " ", "Y", "o", "r", "k">>),
                              keys |-> LocationDataKeys] >>] }

InitForm ==
    /\ now = <<2026, 11, 2, 0>>
    /\ pc = "form"
    /\ date_str = <<>>
    /\ is_start = TRUE
    /\ result = None
    /\ \E d \in Directories :
         run = [NoRun EXCEPT !.files = d.files, !.location_files = d.location_files]
    /\ args = NoArgs
    /\ viz = NoViz
    /\ gui = NoGui

NextForm ==
    \/ Len(gui.workers) < MaxLiveWorkers /\ ClickCheckLocation
    \/ Len(gui.workers) < MaxLiveWorkers /\ ClickFetch
    \/ Len(gui.workers) < MaxLiveWorkers /\ ClickFetchAndVisualize
    \/ \E w \in 1..MaxLiveWorkers : Spawn(w)
    \/ SpawnedCheckLocation
    \/ SpawnedGeocode
    \/ SpawnedParseDates
    \/ ProcessFetch
    \/ ProcessPersist
    \/ ProcessExit
    \/ \E w \in 1..MaxLiveWorkers : FormWorkerStep(w)
    \/ \E w \in 1..MaxLiveWorkers : DismissDialog(w)

SpecForm == InitForm /\ [][NextForm]_vars

(***************************************************************************)
(* Properties of the date normaliser.                                      *)
(***************************************************************************)
\* d is a later calendar date than e (dates <<y, m, d>>).
DateAfter(d, e) == DtGreater(d \o <<0>>, e \o <<0>>)

\* The text is a full date that is not later than yesterday.
NotAfterYesterday(text, n) ==
    LET p == Strptime(text)
    IN  p.ok /\ ~DateAfter(<<p.dt[1], p.dt[2], p.dt[3]>>, PrevDay(n))

\* A 4-character numeric string naming a year of the calendar.
IsYearInput(s) == Len(s) = 4 /\ AllDigits(s) /\ DigitsVal(s) >= 1

YearExpected(s, start, n) ==
    IF start THEN s \o <<"-", "0", "1", "-", "0", "1">>
    ELSE IF DateAfter(<<DigitsVal(s), 12, 31>>, PrevDay(n))
    THEN Strftime(Yesterday(n))
    ELSE s \o <<"-", "1", "2", "-", "3", "1">>

\* C1: for every 4-character numeric date_str, parse_date_input returns
\* YYYY-01-01 in start mode and, in end mode, YYYY-12-31 or yesterday's date
\* when YYYY-12-31 is later than yesterday, as a zero-padded YYYY-MM-DD text.
C1_YearNormalised ==
    (pc = "parsed" /\ IsYearInput(date_str))
        => result = Returned(YearExpected(date_str, is_start, now))

\* A valid YYYY-MM text: a year of the calendar and a month 01..12.
IsYearMonthInput(s) ==
    /\ Len(s) = 7
    /\ AllDigits(SubSeq(s, 1, 4)) /\ s[5] = "-" /\ AllDigits(SubSeq(s, 6, 7))
    /\ DigitsVal(SubSeq(s, 1, 4)) >= 1
    /\ DigitsVal(SubSeq(s, 6, 7)) \in 1..12

YearMonthEndExpected(s, n) ==
    LET y == DigitsVal(SubSeq(s, 1, 4))
        m == DigitsVal(SubSeq(s, 6, 7))
        last == DaysInMonth(y, m)
    IN  IF DateAfter(<<y, m, last>>, PrevDay(n))
        THEN Strftime(Yesterday(n))
        ELSE s \o <<"-">> \o FmtPad(last, 2)

\* C2: for every valid YYYY-MM, parse_date_input in end mode returns the last
\* calendar day of that month of that year, or yesterday's date when that
\* day is later than yesterday.
C2_MonthEndNormalised ==
    (pc = "parsed" /\ ~is_start /\ IsYearMonthInput(date_str))
        => result = Returned(YearMonthEndExpected(date_str, now))

\* C3: whenever parse_date_input succeeds in end mode the date returned is
\* not later than yesterday, and so is the end_date of every archive call
\* and of every date_range written.
C3_EndNotAfterYesterday ==
    /\ (pc = "parsed" /\ ~is_start /\ result.ok)
         => NotAfterYesterday(result.val, now)
    /\ \A i \in 1..Len(run.calls) :
         run.calls[i].api = "archive"
           => NotAfterYesterday(run.calls[i].end_date, now)
    /\ \A i \in 1..Len(run.files) :
         NotAfterYesterday(run.files[i].date_range.end_date, now)

\* C3 happens: a full end date in the future was clamped to yesterday.
C3_Witness ==
    /\ pc = "parsed" /\ ~is_start /\ Len(date_str) = 10
    /\ Strptime(date_str).ok
    /\ DtGreater(Strptime(date_str).dt, Yesterday(now))
    /\ result = Returned(Strftime(Yesterday(now)))

\* The stripped text has one of the three shapes parse_date_input looks for.
HasDateShape(s) ==
    \/ Len(s) = 4
    \/ Len(s) = 7 /\ s[5] = "-"
    \/ Len(s) = 10 /\ s[5] = "-" /\ s[8] = "-"

\* C11: an input that, once stripped, is not of length 4, nor of length 7
\* with '-' at index 4, nor of length 10 with '-' at indexes 4 and 7, fails
\* with the error that names the three formats, and no date is returned.
C11_OtherShapeRejected ==
    (pc = "parsed" /\ ~HasDateShape(Strip(date_str)))
        => result = Raised("Invalid date format. Please use YYYY, YYYY-MM, or YYYY-MM-DD.")

\* C11 happens: a 7-character text with '/' in place of '-' was refused with
\* the error naming the three formats.
C11_Witness ==
    /\ pc = "parsed"
    /\ Len(Strip(date_str)) = 7 /\ Strip(date_str)[5] = "/"
    /\ result = Raised("Invalid date format. Please use YYYY, YYYY-MM, or YYYY-MM-DD.")

\* A YYYY-MM text whose year and month are digits and whose month is not one
\* of 1..12.
IsBadMonthInput(s) ==
    /\ Len(s) = 7
    /\ AllDigits(SubSeq(s, 1, 4)) /\ s[5] = "-" /\ AllDigits(SubSeq(s, 6, 7))
    /\ DigitsVal(SubSeq(s, 6, 7)) \notin 1..12

\* C12: a YYYY-MM input with a numeric month outside 1..12 fails with the
\* message "Month must be between 1 and 12." at the caller, and a
\* 4-character input that is not a number fails with the invalid-year
\* message; no date is returned in either case.
C12_DescriptiveErrors ==
    /\ (pc = "parsed" /\ IsBadMonthInput(date_str))
         => result = Raised("Month must be between 1 and 12.")
    /\ (pc = "parsed" /\ Len(Strip(date_str)) = 4 /\ ~IntParse(Strip(date_str)).ok)
         => result = Raised("Invalid year format. Please use YYYY.")

\* C13: in start mode parse_date_input returns YYYY-01-01 for a year,
\* YYYY-MM-01 for a year-month, and a valid full date unchanged, also when
\* that date is later than yesterday.
C13_StartFirstDay ==
    (pc = "parsed" /\ is_start)
        => /\ IsYearInput(date_str)
                => result = Returned(date_str \o <<"-", "0", "1", "-", "0", "1">>)
           /\ IsYearMonthInput(date_str)
                => result = Returned(date_str \o <<"-", "0", "1">>)
           /\ (Len(date_str) = 10 /\ Strptime(date_str).ok)
                => result = Returned(date_str)

(***************************************************************************)
(* Properties of the fetch pipeline.                                       *)
(***************************************************************************)
\* The positions in run.calls of the calls of an API.
CallsOf(api) == {i \in 1..Len(run.calls) : run.calls[i].api = api}

\* C17: when the geocoding call or the archive call fails, the process that
\* started the fetcher can see that the run failed (a non-zero exit code),
\* and no weather file is written in that run.
C17_FailureSurfaces ==
    (pc = "exit" /\ \E i \in 1..Len(run.calls) : run.calls[i].outcome = "error")
        => (run.exit # 0 /\ run.files = <<>>)

\* C18: in a run of the fetcher, in argument mode and in interactive mode,
\* there is at most one geocoding call and at most one archive call, the
\* geocoding call comes first, and after a call that failed or found nothing
\* no further call is made.
C18_OneCallPerStage ==
    /\ Cardinality(CallsOf("geocoding")) <= 1
    /\ Cardinality(CallsOf("archive")) <= 1
    /\ \A i \in CallsOf("geocoding"), j \in CallsOf("archive") : i < j
    /\ \A i \in 1..Len(run.calls) :
         run.calls[i].outcome \in {"error", "not_found"} => i = Len(run.calls)

\* C18 amended: at most one archive call, after every geocoding call and
\* right after one that found the location; at most one geocoding call in
\* argument mode and with --check-location, where a call that found nothing
\* ends the run; in interactive mode one geocoding call for each name asked
\* for; in every mode a call that failed is the last call of the run.
C18_OneCallPerStageOrPerNameAsked ==
    /\ Cardinality(CallsOf("archive")) <= 1
    /\ \A i \in CallsOf("geocoding"), j \in CallsOf("archive") : i < j
    /\ \A j \in CallsOf("archive") :
         j > 1 /\ run.calls[j - 1] = GeocodingCall("found")
    /\ run.mode \in {"args", "check"}
         => /\ Cardinality(CallsOf("geocoding")) <= 1
            /\ \A i \in 1..Len(run.calls) :
                 run.calls[i].outcome = "not_found" => i = Len(run.calls)
    /\ \A i \in 1..Len(run.calls) :
         run.calls[i].outcome = "error" => i = Len(run.calls)

\* C18 happens: in interactive mode a name was not found, another name was
\* asked for and found, and the archive call failed and ended the run.
C18_Witness ==
    /\ pc = "exit" /\ run.mode = "interactive"
    /\ Len(run.calls) = 3
    /\ run.calls[1] = GeocodingCall("not_found")
    /\ run.calls[2] = GeocodingCall("found")
    /\ run.calls[3].api = "archive" /\ run.calls[3].outcome = "error"

\* A run got as far as its two dates, and one of them is not a date that
\* parse_date_input accepts.
DateInvalid ==
    /\ run.date_inputs # <<>>
    /\ \/ ~parse_date_input(run.date_inputs[1], TRUE, now).ok
       \/ ~parse_date_input(run.date_inputs[2], FALSE, now).ok

\* C29: the archive call is issued only after both dates have been
\* normalised successfully, with the two normalised dates; a weather file is
\* written only after an archive call that succeeded; and when either date
\* is invalid the run makes no archive call and writes no weather file, in
\* argument mode and in interactive mode.
C29_FetchAfterDates ==
    /\ \A j \in CallsOf("archive") :
         /\ run.date_inputs # <<>>
         /\ Returned(run.calls[j].start_date)
              = parse_date_input(run.date_inputs[1], TRUE, now)
         /\ Returned(run.calls[j].end_date)
              = parse_date_input(run.date_inputs[2], FALSE, now)
    /\ run.files # <<>>
         => /\ Len(run.files) = 1
            /\ run.calls # <<>>
            /\ run.calls[Len(run.calls)].api = "archive"
            /\ run.calls[Len(run.calls)].outcome = "ok"
    /\ DateInvalid => (CallsOf("archive") = {} /\ run.files = <<>>)

\* C29 happens: an interactive run ended at its dates, the start date good
\* and the end date not.
C29_Witness ==
    /\ pc = "exit" /\ run.mode = "interactive" /\ DateInvalid
    /\ parse_date_input(run.date_inputs[1], TRUE, now).ok

\* The calendar date of a normalised date, year, month and day.
DateOf(text) == Strptime(text).dt

\* a <= b on calendar dates given as normalised text.
DateNotAfter(a, b) == ~DtGreater(DateOf(a), DateOf(b))

\* C30: the date range handed to the archive call and persisted in
\* date_range has start_date <= end_date.
C30_StartNotAfterEnd ==
    /\ \A j \in CallsOf("archive") :
         DateNotAfter(run.calls[j].start_date, run.calls[j].end_date)
    /\ \A i \in 1..Len(run.files) :
         DateNotAfter(run.files[i].date_range.start_date,
                      run.files[i].date_range.end_date)

(***************************************************************************)
(* Properties of the filter/aggregate engine and of the command line.      *)
(***************************************************************************)
\* The filters were applied in this run (no early return before them).
Filtered == pc = "plot" \/ viz.outcome \in {"chart", "no_usable_data"}

\* The sum of g over the index set I.
RECURSIVE SumOver(_, _)
SumOver(I, g) ==
    IF I = {} THEN 0
    ELSE LET i == CHOOSE x \in I : TRUE
         IN  g[i] + SumOver(I \ {i}, g)

\* The arithmetic mean of a field over the rows df[i], i in I, that have it.
MeanOver(df, I, field) ==
    LET J == {i \in I : df[i][field] # <<>>}
    IN  <<SumOver(J, [i \in J |-> df[i][field][1]]), Cardinality(J)>>

\* Two means <<sum, count>> are the same number (or both NaN).
SameMean(a, b) == (a[2] = 0 <=> b[2] = 0) /\ a[1] * b[2] = b[1] * a[2]

\* The yearly aggregates are exactly: one entry for each year of Y that has
\* a row of df with a mean, holding the means over those rows of that year.
AggregatesAre(df, Y) ==
    LET Q(y) == {i \in 1..Len(df) : df[i].year = y /\ df[i].temp_mean # <<>>}
        stats == viz.yearly_stats
    IN  /\ {stats[k].year : k \in 1..Len(stats)} = {y \in Y : Q(y) # {}}
        /\ \A k \in 1..Len(stats), l \in 1..Len(stats) :
             stats[k].year = stats[l].year => k = l
        /\ \A k \in 1..Len(stats) :
             /\ SameMean(stats[k].temp_mean, MeanOver(df, Q(stats[k].year), "temp_mean"))
             /\ SameMean(stats[k].temp_min, MeanOver(df, Q(stats[k].year), "temp_min"))
             /\ SameMean(stats[k].temp_max, MeanOver(df, Q(stats[k].year), "temp_max"))

MonthsOf(df) == {df[i].month : i \in 1..Len(df)}

\* C4: with a month range (s, e), s and e in 1..12, the month filter keeps
\* exactly the rows with s <= month <= e when s <= e, and exactly those with
\* month >= s or month <= e when s > e; 11-2 keeps months {11, 12, 1, 2} and
\* 6-8 keeps {6, 7, 8}.  In both visualizers.
C4_MonthRangeFilter ==
    (Filtered /\ args.month = <<>> /\ args.month_range # <<>>)
        => LET s == args.month_range[1]
               e == args.month_range[2]
               Wanted(r) == IF s <= e THEN s <= r.month /\ r.month <= e
                            ELSE r.month >= s \/ r.month <= e
           IN  /\ viz.df_filtered = SelectSeq(viz.df_year, Wanted)
               /\ (args.month_range = <<11, 2>> /\ MonthsOf(viz.df_year) = 1..12)
                    => MonthsOf(viz.df_filtered) = {11, 12, 1, 2}
               /\ (args.month_range = <<6, 8>> /\ MonthsOf(viz.df_year) = 1..12)
                    => MonthsOf(viz.df_filtered) = {6, 7, 8}

\* C4 happens: visualizer.py ran with the range 11-2 on a file with every
\* month and kept the four months.
C4_Witness ==
    /\ pc = "exit" /\ viz.variant = "visualizer" /\ viz.outcome = "chart"
    /\ args.month_range = <<11, 2>>
    /\ MonthsOf(viz.df_year) = 1..12
    /\ MonthsOf(viz.df_filtered) = {11, 12, 1, 2}

\* visualizer.py ended a run with only a year range as filter, on a file
\* that was read.
YearRangeRun ==
    /\ pc = "exit" /\ viz.variant = "visualizer"
    /\ viz.outcome \in {"chart", "no_usable_data", "no_data_available"}
    /\ args.year = <<>> /\ args.year_range # <<>>
    /\ args.month = <<>> /\ args.month_range = <<>>

\* C5: with a year range [Y1, Y2] the yearly aggregates hold exactly one
\* entry for each year of [Y1, Y2] that has a row with a mean, with the means
\* of the three fields over those rows, and no other year.
C5_YearRangeAggregates ==
    YearRangeRun
        => AggregatesAre(viz.df, args.year_range[1]..args.year_range[2])

\* C5 amended: the same, for the years of [Y1, Y2] before the current year.
C5_YearRangeAggregatesBeforeCurrentYear ==
    YearRangeRun
        => AggregatesAre(viz.df, {y \in args.year_range[1]..args.year_range[2] : y < now[1]})

\* C5 happens: a year of the range was aggregated, and a usable row of the
\* current year, which the range names too, was left out.
C5_Witness ==
    /\ YearRangeRun /\ viz.outcome = "chart"
    /\ args.year_range[2] >= now[1]
    /\ Len(viz.yearly_stats) >= 1
    /\ \E i \in 1..Len(viz.df) : viz.df[i].year = now[1] /\ viz.df[i].temp_mean # <<>>

\* C6: in visualizer.py, with no year and no month filter no row of the
\* current year is aggregated; with a month filter no row of the current
\* year whose month is the current month or later is aggregated.
C6_CurrentPeriodExcluded ==
    (Filtered /\ viz.variant = "visualizer")
        => /\ (args = NoArgs)
                => /\ \A i \in 1..Len(viz.df_clean) : viz.df_clean[i].year # now[1]
                   /\ \A k \in 1..Len(viz.yearly_stats) : viz.yearly_stats[k].year # now[1]
           /\ (args.month # <<>> \/ args.month_range # <<>>)
                => \A i \in 1..Len(viz.df_clean) :
                     ~(viz.df_clean[i].year = now[1] /\ viz.df_clean[i].month >= now[2])

\* C6 happens: without filters, a file with a usable row of the current year
\* was aggregated without it.
C6_Witness ==
    /\ pc = "exit" /\ viz.variant = "visualizer" /\ viz.outcome = "chart"
    /\ args = NoArgs
    /\ \E i \in 1..Len(viz.df) :
         viz.df[i].year = now[1] /\ viz.df[i].month < now[2] /\ viz.df[i].temp_mean # <<>>
    /\ \A k \in 1..Len(viz.yearly_stats) : viz.yearly_stats[k].year # now[1]

\* The command ended in "Validate arguments": exit(1), the input file not
\* opened, no chart written.
ValidationExit ==
    /\ pc = "exit" /\ viz.exit = 1 /\ viz.outcome = ""
    /\ ~viz.opened /\ viz.charts = <<>>

\* C7: giving both a year and a year range, or both a month and a month
\* range, ends in a validation error (exit code 1, nothing loaded, no
\* chart), whatever the values.
C7_BothRejected ==
    (pc # "cli" /\ (\/ args.year # <<>> /\ args.year_range # <<>>
                    \/ args.month # <<>> /\ args.month_range # <<>>))
        => ValidationExit

\* C8: a month range with a value outside 1..12, or a year range with
\* start > end, ends the command with exit code 1 before the file is loaded
\* or a chart written; with valid arguments there is no validation exit.
C8_RangeValidation ==
    pc # "cli"
        => /\ (\/ args.month_range # <<>> /\ ~(args.month_range[1] \in 1..12
                                               /\ args.month_range[2] \in 1..12)
               \/ args.year_range # <<>> /\ args.year_range[1] > args.year_range[2])
                => ValidationExit
           /\ (/\ ~(args.year # <<>> /\ args.year_range # <<>>)
               /\ ~(args.month # <<>> /\ args.month_range # <<>>)
               /\ args.month_range # <<>> => (args.month_range[1] \in 1..12
                                              /\ args.month_range[2] \in 1..12)
               /\ args.year_range # <<>> => args.year_range[1] <= args.year_range[2])
                => ~(viz.exit = 1 /\ viz.outcome = "")

\* C8 happens: a month range whose start is out of range and whose end is in
\* range was refused.
C8_Witness ==
    /\ ValidationExit
    /\ args.month = <<>> /\ args.year = <<>> /\ args.year_range = <<>>
    /\ args.month_range # <<>>
    /\ args.month_range[1] \notin 1..12 /\ args.month_range[2] \in 1..12

\* C9: when no row is left after the filters and the drop of the rows
\* without a mean, the engine reports that there is no usable data and
\* returns: no aggregate, no chart, no exception, whatever the filters; a
\* chart is only made from rows that are left.
C9_EmptyIsNoUsableData ==
    /\ viz.file = "ok" => viz.exc = ""
    /\ (pc = "exit" /\ viz.opened /\ viz.df_clean = <<>>
          /\ viz.file = "ok")
         => /\ viz.outcome \in {"no_usable_data", "no_data_available"}
            /\ viz.outcome = "no_data_available"
                 <=> (viz.variant = "visualizer" /\ args.year = <<>>
                        /\ args.year_range # <<>> /\ args.year_range[1] >= now[1])
            /\ viz.yearly_stats = <<>>
            /\ viz.charts = <<>>
            /\ viz.exit = 0
    /\ viz.outcome = "chart" => viz.df_clean # <<>>

\* C9 happens: a month filter left no row of a file that has rows.
C9_Witness ==
    /\ pc = "exit" /\ viz.outcome = "no_usable_data"
    /\ args.month # <<>>
    /\ viz.df_year # <<>> /\ viz.df_filtered = <<>>

\* C10: a row without a mean contributes to no yearly aggregate, also when
\* its min and max are there, and no row with a mean is dropped: the rows
\* aggregated are the filtered rows that have a mean, and the aggregates are
\* the means over them.
C10_MissingMeanDropped ==
    Filtered
        => /\ LET HasMean(r) == r.temp_mean # <<>>
              IN  viz.df_clean = SelectSeq(viz.df_filtered, HasMean)
           /\ viz.outcome = "chart"
                => AggregatesAre(viz.df_filtered,
                                 {viz.df_filtered[i].year : i \in 1..Len(viz.df_filtered)})

\* C10 happens: a year was aggregated that has a row with a mean and a row
\* without a mean whose min and max are there.
C10_Witness ==
    /\ pc = "exit" /\ viz.outcome = "chart"
    /\ \E i \in 1..Len(viz.df_filtered), j \in 1..Len(viz.df_filtered) :
         /\ viz.df_filtered[i].year = viz.df_filtered[j].year
         /\ viz.df_filtered[i].temp_mean = <<>>
         /\ viz.df_filtered[i].temp_min # <<>> /\ viz.df_filtered[i].temp_max # <<>>
         /\ viz.df_filtered[j].temp_mean # <<>>

\* visualizer.py read its file and applied a filter on one year, no other.
SingleYearRun ==
    /\ viz.variant = "visualizer" /\ viz.file = "ok"
    /\ pc \in {"plot", "exit"}
    /\ args.year # <<>> /\ args.year_range = <<>>

\* C26: with a single-year filter Y, visualizer.py aggregates only rows
\* whose year is Y; with Y the current year or later that is no row at all,
\* and the outcome is "no usable data".
C26_SingleYearOnly ==
    SingleYearRun
        => /\ \A i \in 1..Len(viz.df_clean) : viz.df_clean[i].year = args.year[1]
           /\ \A k \in 1..Len(viz.yearly_stats) : viz.yearly_stats[k].year = args.year[1]
           /\ (pc = "exit" /\ args.year[1] >= now[1]) => viz.outcome = "no_usable_data"

\* visualizer.py applied its filters with a month filter and no year filter.
MonthOnlyRun ==
    /\ Filtered /\ viz.variant = "visualizer"
    /\ args.year = <<>> /\ args.year_range = <<>>
    /\ (args.month # <<>> \/ args.month_range # <<>>)

\* The month filter names the month m.
MonthWanted(m) ==
    IF args.month # <<>> THEN m = args.month[1]
    ELSE InMonthRange(m, args.month_range[1], args.month_range[2])

\* C27: in visualizer.py, with a month filter and no year filter, the rows
\* of the current year whose month is before the current month and matches
\* the filter are kept (and aggregated when they have a mean); the current
\* and later months of the current year are left out.
C27_EarlierMonthsKept ==
    MonthOnlyRun
        => /\ \A i \in 1..Len(viz.df) :
                (/\ viz.df[i].year = now[1]
                 /\ viz.df[i].month < now[2]
                 /\ MonthWanted(viz.df[i].month))
                    => \E j \in 1..Len(viz.df_filtered) : viz.df_filtered[j] = viz.df[i]
           /\ \A j \in 1..Len(viz.df_filtered) :
                ~(viz.df_filtered[j].year = now[1] /\ viz.df_filtered[j].month >= now[2])

\* visualizer.py read its file and took the year_range branch of "Filter by
\* year" (year is None).
RangeBranchRun ==
    /\ viz.variant = "visualizer" /\ viz.file = "ok"
    /\ pc \in {"plot", "exit"}
    /\ args.year = <<>> /\ args.year_range # <<>>

\* The end of a year range as the filter uses it.
EffectiveEnd(e, n) == IF e <= n[1] - 1 THEN e ELSE n[1] - 1

\* C28: with a year range (start, end) in visualizer.py: when start is the
\* current year or later the run ends with the no-data message and no chart;
\* otherwise exactly the rows with start <= year <= min(end, current year - 1)
\* pass the year filter, and that range is not empty when start <= end.
C28_YearRangeFilter ==
    RangeBranchRun
        => LET s == args.year_range[1]
               e == EffectiveEnd(args.year_range[2], now)
               Passes(r) == s <= r.year /\ r.year <= e
           IN  IF s >= now[1]
               THEN /\ pc = "exit" /\ viz.outcome = "no_data_available"
                    /\ viz.msg = "No data available: start year is current year or later"
                    /\ viz.charts = <<>>
               ELSE /\ viz.outcome # "no_data_available"
                    /\ viz.df_year = SelectSeq(viz.df, Passes)
                    /\ s <= args.year_range[2] => s <= e

\* C28 happens: the range ends with the current year; the row of the year
\* before passed, the row of the current year did not.
C28_Witness ==
    /\ RangeBranchRun /\ pc = "exit" /\ viz.outcome = "chart"
    /\ args.year_range = <<now[1] - 1, now[1]>>
    /\ \E i \in 1..Len(viz.df) : viz.df[i].year = now[1]
    /\ Len(viz.df_year) = 1 /\ viz.df_year[1].year = now[1] - 1

\* What visualize_weather_data of a variant selects from df with the
\* filters a, at datetime.now() = n: it returned early (ret), raised (exc),
\* or kept the rows df and aggregated them to stats.
Selection(variant, df, a, n) ==
    LET yf == IF variant = "visualizer"
              THEN YearFilter(df, a.year, a.year_range, n)
              ELSE YearFilterOpenMeteo(df, a.year, a.year_range)
    IN  IF yf.ret THEN [ret |-> TRUE, exc |-> "", df |-> <<>>, stats |-> <<>>]
        ELSE LET mf == IF variant = "visualizer"
                       THEN MonthFilter(yf.df, a.month, a.month_range, n)
                       ELSE MonthFilterOpenMeteo(yf.df, a.month, a.month_range)
             IN  IF mf.exc # "" THEN [ret |-> FALSE, exc |-> mf.exc, df |-> <<>>, stats |-> <<>>]
                 ELSE [ret |-> FALSE, exc |-> "", df |-> DropNA(mf.df),
                       stats |-> GroupByYear(DropNA(mf.df))]

\* The filters name only years before the current year.
OnlyPastYearsNamed(a, n) ==
    /\ a.year # <<>> => a.year[1] < n[1]
    /\ a.year_range # <<>> => (a.year_range[1] < n[1] /\ a.year_range[2] < n[1])

AllRowsBefore(df, n) == \A i \in 1..Len(df) : df[i].year < n[1]

\* A run of either variant that read its file and got through the filters.
SelectionRun == viz.file = "ok" /\ pc = "exit"

\* C22: on a payload whose rows are all before the current year, with
\* filters that name only years before the current year, the run of either
\* variant selects the rows and produces the yearly aggregates that the
\* other variant does; with no filters visualization_openmeteo.py keeps the
\* rows of the current year and visualizer.py leaves them out.
C22_VariantsAgree ==
    SelectionRun
        => LET mine == Selection(viz.variant, viz.df, args, now)
               a == Selection("visualizer", viz.df, args, now)
               b == Selection("visualization_openmeteo", viz.df, args, now)
               Current(r) == r.year = now[1]
           IN  /\ viz.df_clean = mine.df
               /\ viz.yearly_stats = mine.stats
               /\ (AllRowsBefore(viz.df, now) /\ OnlyPastYearsNamed(args, now)) => a = b
               /\ args = NoArgs
                    => /\ SelectSeq(a.df, Current) = <<>>
                       /\ SelectSeq(b.df, Current) = SelectSeq(DropNA(viz.df), Current)

\* C22 happens: visualization_openmeteo.py drew a chart from rows before
\* the current year, selected by a year range and a cross-year month range.
C22_Witness ==
    /\ SelectionRun /\ viz.variant = "visualization_openmeteo" /\ viz.outcome = "chart"
    /\ AllRowsBefore(viz.df, now) /\ OnlyPastYearsNamed(args, now)
    /\ args.year_range # <<>> /\ args.month_range = <<11, 2>>
    /\ Len(viz.df) = 2 /\ Len(viz.df_clean) = 1

\* C22 happens, second half: without filters visualization_openmeteo.py
\* aggregated a row of the current year.
C22_WitnessCurrentKept ==
    /\ SelectionRun /\ viz.variant = "visualization_openmeteo" /\ args = NoArgs
    /\ \E k \in 1..Len(viz.yearly_stats) : viz.yearly_stats[k].year = now[1]

\* a = b, a + b and a * b on fractions.
SameNumber(a, b) == a[1] * b[2] = b[1] * a[2]
RECURSIVE Gcd(_, _)
Gcd(a, b) == IF b = 0 THEN a ELSE Gcd(b, a % b)

Abs(k) == IF k < 0 THEN 0 - k ELSE k

\* A fraction in lowest terms.
Lowest(a) ==
    LET g == Gcd(Abs(a[1]), a[2])
    IN  <<a[1] \div g, a[2] \div g>>

PlusLowest(a, b) == Lowest(<<a[1] * b[2] + b[1] * a[2], a[2] * b[2]>>)
Plus(a, b) == PlusLowest(Lowest(a), Lowest(b))
TimesLowest(a, b) == Lowest(<<a[1] * b[1], a[2] * b[2]>>)
Times(a, b) == TimesLowest(Lowest(a), Lowest(b))
Whole(k) == <<k, 1>>

RECURSIVE PlusAll(_)
PlusAll(s) == IF s = <<>> THEN Whole(0) ELSE Plus(Head(s), PlusAll(Tail(s)))

\* The line slope * year + c, c its value at the year x0, is a least-squares
\* line of the yearly means against the years: the residuals sum to zero
\* and are orthogonal to the years (the normal equations).
IsLeastSquares(slope, x0, c, stats) ==
    LET K == 1..Len(stats)
        Fitted(k) == Plus(c, Times(slope, Whole(stats[k].year - x0)))
        residual == [k \in K |-> Plus(stats[k].temp_mean, Times(Whole(-1), Fitted(k)))]
    IN  /\ PlusAll(residual)[1] = 0
        /\ PlusAll([k \in K |-> Times(Whole(stats[k].year - x0), residual[k])])[1] = 0

\* visualizer.py reported a trend.
TrendRun == pc = "exit" /\ viz.trend # <<>>

\* C23: with --trend, the trend reported is a least-squares line of the
\* yearly mean temperature against the year over the yearly aggregates, and
\* the two endpoint values reported are that line at the smallest and at
\* the largest year of the aggregates; a trend is reported whenever there
\* are aggregates.
C23_TrendIsLeastSquares ==
    /\ (pc = "exit" /\ viz.variant = "visualizer" /\ args.trend
           /\ viz.yearly_stats # <<>>) => viz.trend # <<>>
    /\ TrendRun
         => LET t == viz.trend[1]
                stats == viz.yearly_stats
                Y == {stats[k].year : k \in 1..Len(stats)}
            IN  /\ stats # <<>>
                /\ IsLeastSquares(t.line.slope, t.line.x0, t.line.y0, stats)
                /\ t.start_year \in Y /\ \A y \in Y : t.start_year <= y
                /\ t.end_year \in Y /\ \A y \in Y : y <= t.end_year
                /\ SameNumber(t.start_temp,
                              Plus(t.line.y0, Times(t.line.slope, Whole(t.start_year - t.line.x0))))
                /\ SameNumber(t.end_temp,
                              Plus(t.line.y0, Times(t.line.slope, Whole(t.end_year - t.line.x0))))

\* C23 happens: a trend over three years whose means are not on one line,
\* with a slope that is not zero.
C23_Witness ==
    /\ TrendRun /\ Len(viz.yearly_stats) = 3
    /\ viz.trend[1].line.slope[1] # 0
    /\ ~SameNumber(viz.trend[1].start_temp, viz.yearly_stats[1].temp_mean)

(***************************************************************************)
(* Properties of the input file and of the chart written.                  *)
(***************************************************************************)
\* C19: with an input file that is absent, is not JSON, has no weather_data
\* or no daily data, or has daily arrays of unequal length, the visualizer
\* prints a message and ends without a chart and without an exception.
C19_BadFileHandled ==
    (pc = "exit" /\ viz.file \in BadFiles)
        => (viz.msg # "" /\ viz.charts = <<>> /\ viz.exc = "")

StartsWith(s, prefix) == Len(s) >= Len(prefix) /\ SubSeq(s, 1, Len(prefix)) = prefix

HasSub(s, sub) == \E i \in 1..(Len(s) - Len(sub) + 1) : SubSeq(s, i, i + Len(sub) - 1) = sub

\* The chart has the default name: img/weather_trend_{latitude}_{longitude},
\* then the year that was filtered on or the year range given, then the
\* month or the month range given, and nothing for a filter not given, then
\* .png.
HasDefaultName(chart) ==
    LET head == ImgDir \o WeatherTrend \o viz.latitude \o <<"_">> \o viz.longitude
        rest == SubSeq(chart, Len(head) + 1, Len(chart) - Len(PngExt))
        years == IF viz.year # <<>>
                 THEN <<"_", "y", "e", "a", "r">> \o FmtInt(viz.year[1])
                 ELSE IF args.year_range # <<>>
                 THEN <<"_", "y", "e", "a", "r", "s">> \o FmtInt(args.year_range[1])
                        \o <<"-">> \o FmtInt(args.year_range[2])
                 ELSE <<>>
        months == SubSeq(rest, Len(years) + 1, Len(rest))
    IN  /\ StartsWith(chart, head) /\ EndsWith(chart, PngExt)
        /\ Len(chart) >= Len(head) + Len(PngExt)
        /\ StartsWith(rest, years)
        /\ (viz.year = <<>> /\ args.year_range = <<>>) => ~HasSub(rest, <<"y", "e", "a", "r">>)
        /\ args.month # <<>>
             => months = <<"_", "m", "o", "n", "t", "h">> \o FmtPad(args.month[1], 2)
        /\ (args.month = <<>> /\ args.month_range # <<>>)
             => months = <<"_", "m", "o", "n", "t", "h", "s">>
                           \o FmtPad(args.month_range[1], 2) \o <<"-">>
                           \o FmtPad(args.month_range[2], 2)
        /\ (args.month = <<>> /\ args.month_range = <<>>) => months = <<>>

\* C20: every chart written is a .png file under img/, with the default name
\* and with every name given with --output; the default name is made of the
\* latitude and longitude of the payload and a suffix for each filter given.
C20_ChartUnderImg ==
    \A i \in 1..Len(viz.charts) :
        /\ EndsWith(viz.charts[i], PngExt)
        /\ StartsWith(viz.charts[i], ImgDir)
        /\ args.output = <<>> => HasDefaultName(viz.charts[i])

\* C20 amended: every chart written is a .png file; it is under img/ with the
\* default name and with every name given with --output that has no '/'; a
\* name given with a '/' is the path of the chart, with .png added when it
\* does not end with it; the default name is as stated.
C20_ChartUnderImgUnlessPathGiven ==
    \A i \in 1..Len(viz.charts) :
        /\ EndsWith(viz.charts[i], PngExt)
        /\ (args.output = <<>> \/ ~Contains(args.output, "/"))
             => StartsWith(viz.charts[i], ImgDir)
        /\ Contains(args.output, "/")
             => viz.charts[i] \in {args.output, args.output \o PngExt}
        /\ args.output = <<>> => HasDefaultName(viz.charts[i])

\* C20 happens: a chart was written at the absolute path given with --output,
\* which is not under img/.
C20_Witness ==
    /\ pc = "exit" /\ viz.outcome = "chart"
    /\ args.output = <<"/", "t", "/", "o", ".", "p", "n", "g">>
    /\ viz.charts = <<args.output>>

(***************************************************************************)
(* Properties of the desktop form.                                         *)
(***************************************************************************)
\* C14: for each trigger button at most one worker started by it is running
\* at any time, and the button is disabled as long as a worker it started is
\* running.
C14_OneWorkerPerButton ==
    \A w \in 1..Len(gui.workers) :
        Running(w)
          => /\ gui.state[gui.workers[w].button] = "disabled"
             /\ \A v \in 1..Len(gui.workers) :
                  (Running(v) /\ gui.workers[v].button = gui.workers[w].button) => v = w

\* The fields of the form object that the next step of the worker w writes,
\* and those it reads.
Writes(w) ==
    IF ~Running(w) THEN {}
    ELSE IF gui.workers[w].button = "check_location_btn" /\ gui.workers[w].pc = "load"
    THEN {"location_data"}
    ELSE IF gui.workers[w].button \in {"fetch_btn", "fetch_and_visualize_btn"}
              /\ gui.workers[w].pc = "record"
    THEN {"weather_data_file"}
    ELSE {}

Reads(w) ==
    IF ~Running(w) THEN {}
    ELSE IF gui.workers[w].button = "check_location_btn" /\ gui.workers[w].pc = "load"
    THEN {"location_data"}
    ELSE IF gui.workers[w].button = "visualize_btn" /\ gui.workers[w].pc = "build"
    THEN {"weather_data_file"}
    ELSE {}

\* C15: no field of the form object is written by a worker while another
\* running worker reads or writes it: no two workers are both about to use
\* the same field, one of them writing it.
C15_NoSharedField ==
    \A w \in 1..Len(gui.workers), v \in 1..Len(gui.workers) :
        w # v => Writes(w) \cap (Reads(v) \cup Writes(v)) = {}

\* The worker w has ended and its button is enabled.
DoneAndEnabled(w) ==
    /\ w \in 1..Len(gui.workers)
    /\ gui.workers[w].pc = "done"
    /\ gui.state[gui.workers[w].button] = "normal"

AtDialog(w) == w \in 1..Len(gui.workers) /\ gui.workers[w].pc = "dialog"

C21_DuplicateAgrees ==
    /\ pc = "parsed_twice" => result.duplicate = [ok |-> result.ok, val |-> result.val]
    /\ \A i \in 1..Len(run.files) :
          run.output_file = <<>>
          => /\ run.files[i].name = Filename(<<>>, run.location_name,
                                             run.files[i].date_range.start_date,
                                             run.files[i].date_range.end_date)
             /\ run.files[i].name = OpenMeteoFetcherFilename(run.location_name,
                                             run.files[i].date_range.start_date,
                                             run.files[i].date_range.end_date)
             /\ run.files[i].keys = EnhancedDataKeys
             /\ run.files[i].keys = OpenMeteoFetcherKeys

\* C21 happens: both functions were called with a full end date in the
\* future and both gave yesterday.
C21_Witness ==
    /\ pc = "parsed_twice"
    /\ ~is_start
    /\ Len(date_str) = 10
    /\ result.ok /\ result.duplicate.ok
    /\ result.duplicate.val = Strftime(Yesterday(now))
    /\ result.duplicate.val # date_str

(***************************************************************************)
(* Properties of the desktop form with its fetcher.                        *)
(***************************************************************************)
\* The fetcher the form started has ended after writing its weather file.
Fetched ==
    /\ pc = "form"
    /\ Len(run.calls) = 2
    /\ run.calls[2].api = "archive"
    /\ run.calls[2].outcome = "ok"

\* The weather file the fetcher wrote last.
Written == run.files[Len(run.files)]

\* C24: when the fetcher a Fetch or a Fetch & Visualize worker started has
\* ended after writing its weather file under its default name, the worker
\* finds that file: it goes on to record a weather_filename that is the name
\* of the file written (after which the one enables Visualize Data and the
\* other runs the visualizer on it).
C24_FormFindsFetchedFile ==
    [][\A w \in 1..MaxLiveWorkers :
          (/\ Waiting(w)
           /\ gui.workers[w].button \in {"fetch_btn", "fetch_and_visualize_btn"}
           /\ Fetched
           /\ gui'.workers[w].pc # "subprocess")
          => /\ gui'.workers[w].pc = "record"
             /\ weather_filename(gui.workers[w].location) = Written.name]_vars

\* C25: after a location check of the form, the label location_info is green
\* only when the fetcher the worker ran resolved the location, and it shows
\* "Location not found" or "Error checking location" when the fetcher did
\* not find the location.
C25_SuccessOnlyWhenResolved ==
    \A w \in 1..Len(gui.workers) :
        (/\ gui.workers[w].button = "check_location_btn"
         /\ gui.workers[w].pc \in {"dialog", "finally", "done"}
         /\ run.parent = w)
        => /\ gui.location_info.foreground = "green" => run.location = "found"
           /\ run.calls[1].outcome = "not_found"
                  => gui.location_info \in {LocationNotFound, ErrorCheckingLocation}

====
